---- MODULE Spec2Model ----
(***************************************************************************)
(* Token Management System: the Express back end (server.js) that keeps a  *)
(* list of token records in one file of a GitHub repository, reached       *)
(* through the Contents API (read: content + sha, write: content + sha).   *)
(*                                                                         *)
(* Strings are sequences of one-character strings, so that trim, split,    *)
(* join and the base64 id derivation are computed as the code computes     *)
(* them.  A file body is either a JSON document (JSON.stringify output or  *)
(* a hand-written JSON file), kept structured, or plain text, kept as its  *)
(* characters.                                                             *)
(***************************************************************************)
EXTENDS Integers, Sequences, FiniteSets, TLC

(* ------------------------------ bounds --------------------------------- *)
\* Total number of HTTP requests started in one behaviour.
MaxRequests == 2
\* Largest value of the millisecond clock (Date.now()).
MaxClock == 2
\* Largest number of records of a list given to the codec on its own.
MaxListLen == 2

\* Largest number of lines of a pasted text of several lines.
MaxParsed == 2

(* ------------------------------ strings -------------------------------- *)
TAB == "\t"
NL == "\n"
SP == " "

\* Characters String.prototype.trim removes (those the model's alphabet has).
IsSpace(c) == c \in {SP, TAB, NL}

RECURSIVE TrimStart(_)
TrimStart(s) ==
    IF s = <<>> THEN <<>>
    ELSE IF IsSpace(Head(s)) THEN TrimStart(Tail(s)) ELSE s

RECURSIVE TrimEnd(_)
TrimEnd(s) ==
    IF s = <<>> THEN <<>>
    ELSE IF IsSpace(s[Len(s)]) THEN TrimEnd(SubSeq(s, 1, Len(s) - 1)) ELSE s

\* String.prototype.trim
Trim(s) == TrimEnd(TrimStart(s))

\* String.prototype.includes for a single character
Includes(s, c) == \E i \in 1..Len(s) : s[i] = c

\* String.prototype.split for a single-character separator: always at least
\* one part, empty parts kept.
RECURSIVE Split(_, _)
Split(s, c) ==
    IF ~Includes(s, c) THEN <<s>>
    ELSE LET i == CHOOSE k \in 1..Len(s) :
                      s[k] = c /\ \A j \in 1..(k - 1) : s[j] # c
         IN  <<SubSeq(s, 1, i - 1)>> \o Split(SubSeq(s, i + 1, Len(s)), c)

\* Array.prototype.join for a single-character separator
RECURSIVE Join(_, _)
Join(parts, c) ==
    IF parts = <<>> THEN <<>>
    ELSE IF Len(parts) = 1 THEN parts[1]
    ELSE parts[1] \o <<c>> \o Join(Tail(parts), c)

\* String.prototype.substring(from, to) with 0-based, end-exclusive indices
Substring(s, from, to) ==
    LET a == IF from > Len(s) THEN Len(s) ELSE from
        b == IF to > Len(s) THEN Len(s) ELSE to
    IN  SubSeq(s, a + 1, b)

DigitChars == <<"0", "1", "2", "3", "4", "5", "6", "7", "8", "9">>

\* Number.prototype.toString for a natural number
RECURSIVE NatToString(_)
NatToString(n) ==
    IF n < 10 THEN <<DigitChars[n + 1]>>
    ELSE NatToString(n \div 10) \o <<DigitChars[(n % 10) + 1]>>

\* Date.prototype.toISOString of the instant t: the instant's digits between
\* the fixed letters of the ISO format (no whitespace, no tab, not JSON).
ToISOString(t) == NatToString(t) \o <<"Z">>

(* ------------------------------ base64 --------------------------------- *)
\* The character codes (UTF-8, one byte each) of the model's alphabet.
CharCode ==
    (SP :> 32) @@ (TAB :> 9) @@ (NL :> 10) @@
    ("\"" :> 34) @@ ("\\" :> 92) @@ ("," :> 44) @@ (":" :> 58) @@
    ("[" :> 91) @@ ("]" :> 93) @@ ("{" :> 123) @@ ("}" :> 125) @@
    ("a" :> 97) @@
    ("b" :> 98) @@
    ("c" :> 99) @@
    ("d" :> 100) @@
    ("e" :> 101) @@
    ("f" :> 102) @@
    ("g" :> 103) @@
    ("i" :> 105) @@
    ("k" :> 107) @@
    ("l" :> 108) @@
    ("m" :> 109) @@
    ("n" :> 110) @@
    ("o" :> 111) @@
    ("r" :> 114) @@
    ("s" :> 115) @@
    ("t" :> 116) @@
    ("u" :> 117) @@
    ("v" :> 118) @@
    ("A" :> 65) @@
    ("T" :> 84) @@
    ("Z" :> 90) @@
    ("0" :> 48) @@
    ("1" :> 49) @@
    ("2" :> 50) @@
    ("3" :> 51) @@
    ("4" :> 52) @@
    ("5" :> 53) @@
    ("6" :> 54) @@
    ("7" :> 55) @@
    ("8" :> 56) @@
    ("9" :> 57)

Base64Alphabet ==
    << "A", "B", "C", "D", "E", "F", "G", "H", "I", "J", "K", "L", "M", "N", "O", "P",
       "Q", "R", "S", "T", "U", "V", "W", "X", "Y", "Z", "a", "b", "c", "d", "e", "f",
       "g", "h", "i", "j", "k", "l", "m", "n", "o", "p", "q", "r", "s", "t", "u", "v",
       "w", "x", "y", "z", "0", "1", "2", "3", "4", "5", "6", "7", "8", "9", "+", "/" >>

IsAlnum(c) == \E i \in 1..62 : Base64Alphabet[i] = c

\* Buffer.from(s).toString('base64'): three bytes become four characters,
\* the last group is padded with "=".
RECURSIVE Base64(_)
Base64(s) ==
    IF s = <<>> THEN <<>>
    ELSE LET b0 == CharCode[s[1]]
             b1 == IF Len(s) >= 2 THEN CharCode[s[2]] ELSE 0
             b2 == IF Len(s) >= 3 THEN CharCode[s[3]] ELSE 0
             c1 == Base64Alphabet[(b0 \div 4) + 1]
             c2 == Base64Alphabet[((b0 % 4) * 16 + (b1 \div 16)) + 1]
             c3 == Base64Alphabet[((b1 % 16) * 4 + (b2 \div 64)) + 1]
             c4 == Base64Alphabet[(b2 % 64) + 1]
         IN  IF Len(s) = 1 THEN <<c1, c2, "=", "=">>
             ELSE IF Len(s) = 2 THEN <<c1, c2, c3, "=">>
             ELSE <<c1, c2, c3, c4>> \o Base64(SubSeq(s, 4, Len(s)))

\* .replace(/[^a-zA-Z0-9]/g, '')
RECURSIVE StripNonAlnum(_)
StripNonAlnum(s) ==
    IF s = <<>> THEN <<>>
    ELSE (IF IsAlnum(Head(s)) THEN <<Head(s)>> ELSE <<>>) \o StripNonAlnum(Tail(s))

\* Number of leading and of trailing characters of the value the id is made of.
IdEdge == 10

\* ConsistentId made of the whole value.
MutConsistentIdWhole(v) == StripNonAlnum(Base64(v))

\* The id of a record read from a plain-text line: base64 of the (trimmed)
\* value's first 10 and last 10 characters, alphanumerics only.
ConsistentId(v) ==
    LET idBase == Substring(v, 0, IdEdge)
                  \o Substring(v, (IF Len(v) - IdEdge > 0 THEN Len(v) - IdEdge ELSE 0), Len(v))
    IN  StripNonAlnum(Base64(idBase))

(* --------------------------- token records ----------------------------- *)
\* A token record { id, name, value, tag, createdAt }, every field a string.
Token(id, name, value, tag, createdAt) ==
    [id |-> id, name |-> name, value |-> value, tag |-> tag, createdAt |-> createdAt]

NoToken == Token(<<>>, <<>>, <<>>, <<>>, <<>>)

\* An optional request field: <<>> when the JSON body has no such key
\* (undefined), <<s>> when it holds the string s.
None == <<>>
Some(s) == <<s>>

(* ------------------------------ file body ------------------------------ *)
\* A file body: a JSON document (an array of records, or some other JSON
\* value) or plain text (its characters).
JsonArrayBody(items) ==
    [kind |-> "json", isArray |-> TRUE, items |-> items, chars |-> <<>>]
JsonScalarBody ==
    [kind |-> "json", isArray |-> FALSE, items |-> <<>>, chars |-> <<>>]
TextBody(chars) ==
    [kind |-> "text", isArray |-> FALSE, items |-> <<>>, chars |-> chars]
NoBody ==
    [kind |-> "none", isArray |-> FALSE, items |-> <<>>, chars |-> <<>>]

IsDigit(c) == \E i \in 1..10 : DigitChars[i] = c
AllDigits(s) == s # <<>> /\ \A i \in 1..Len(s) : IsDigit(s[i])

\* A JSON integer: digits without a leading zero, "0" itself allowed.
IsJsonInt(s) == AllDigits(s) /\ (Len(s) = 1 \/ s[1] # "0")

\* A JSON number made of the model's alphabet: an integer, or an integer
\* with an exponent (1e2).
IsJsonNumber(s) ==
    \/ IsJsonInt(s)
    \/ \E i \in 2..(Len(s) - 1) :
          /\ s[i] = "e"
          /\ IsJsonInt(SubSeq(s, 1, i - 1))
          /\ AllDigits(SubSeq(s, i + 1, Len(s)))

(* ------------------------------ JSON text ------------------------------ *)
QUOTE == "\""
BSL == "\\"

\* The characters JSON allows between its tokens (of the model's alphabet).
JsonWs(c) == c \in {SP, TAB, NL}

\* The index of the first character at or after i that is not white space.
RECURSIVE SkipWs(_, _)
SkipWs(s, i) == IF i <= Len(s) /\ JsonWs(s[i]) THEN SkipWs(s, i + 1) ELSE i

\* What a step of JSON.parse returns: the value read and the index after it,
\* or ok = FALSE where JSON.parse throws a SyntaxError.
Parsed(kind, val, next) == [ok |-> TRUE, kind |-> kind, val |-> val, next |-> next]
SyntaxError == [ok |-> FALSE, kind |-> "none", val |-> <<>>, next |-> 0]

\* The character an escape sequence \c stands for (b, f, r and u name
\* characters the model's alphabet does not have).
IsEscape(c) == c \in {QUOTE, BSL, "/", "n", "t"}
Unescape(c) == IF c = "n" THEN NL ELSE IF c = "t" THEN TAB ELSE c

\* The rest of a JSON string from index i (after the opening quote), acc
\* holding the characters read so far: up to the closing quote; a control
\* character must be escaped.
RECURSIVE StringBody(_, _, _)
StringBody(s, i, acc) ==
    IF i > Len(s) THEN SyntaxError
    ELSE IF s[i] = QUOTE THEN Parsed("string", acc, i + 1)
    ELSE IF \/ s[i] \in {TAB, NL}
            \/ s[i] = BSL /\ ~(i + 1 <= Len(s) /\ IsEscape(s[i + 1]))
    THEN SyntaxError
    ELSE StringBody(s, (IF s[i] = BSL THEN i + 2 ELSE i + 1),
                    Append(acc, IF s[i] = BSL THEN Unescape(s[i + 1]) ELSE s[i]))

\* The index after the run of characters of a number or a literal name.
RECURSIVE ScalarEnd(_, _)
ScalarEnd(s, i) ==
    IF i <= Len(s) /\ ~JsonWs(s[i]) /\ s[i] \notin {",", "]", "}", ":", "[", "{", QUOTE}
    THEN ScalarEnd(s, i + 1)
    ELSE i

JsonLiterals ==
    { <<"t", "r", "u", "e">>, <<"f", "a", "l", "s", "e">>, <<"n", "u", "l", "l">> }

\* The name of a record's field spelled by the characters of a JSON key.
FieldChars ==
    [ id |-> <<"i", "d">>,
      name |-> <<"n", "a", "m", "e">>,
      value |-> <<"v", "a", "l", "u", "e">>,
      tag |-> <<"t", "a", "g">>,
      createdAt |-> <<"c", "r", "e", "a", "t", "e", "d", "A", "t">> ]
FieldOrder == <<"id", "name", "value", "tag", "createdAt">>
FieldName(key) ==
    IF \E f \in DOMAIN FieldChars : FieldChars[f] = key
    THEN CHOOSE f \in DOMAIN FieldChars : FieldChars[f] = key
    ELSE "other"

\* An array or an object that JSON.parse has entered and not yet left: what
\* it holds so far and, for an object, the key whose value is being read.
Frame(kind, acc, key) == [kind |-> kind, acc |-> acc, key |-> key]

\* The array or object f after the value v was read into it: appended to the
\* array, or bound to the key in the object (of two equal keys the last one
\* wins).
Put(f, v) ==
    IF f.kind = "array" THEN Frame("array", Append(f.acc, v), <<>>)
    ELSE Frame("object", (FieldName(f.key) :> v) @@ f.acc, <<>>)

\* The open arrays and objects after the value v was read into the innermost.
Deliver(stack, v) == [stack EXCEPT ![Len(stack)] = Put(@, v)]

\* A step of JSON.parse: it goes on from index i, or it ends with a result.
GoOn(i, st, stack) ==
    [done |-> FALSE, res |-> SyntaxError, i |-> i, st |-> st, stack |-> stack]
End(res) == [done |-> TRUE, res |-> res, i |-> 0, st |-> "", stack |-> <<>>]

\* The value v of this kind was read, up to index next: the whole text's
\* value, or one more value of the innermost array or object.
Given(stack, kind, v, next) ==
    IF stack = <<>> THEN End(Parsed(kind, v, next))
    ELSE GoOn(next, "after", Deliver(stack, v))

\* The innermost array or object f of the stack ends before index next: it
\* is a value.
Closed(stack, f, next) ==
    Given(SubSeq(stack, 1, Len(stack) - 1), f.kind, f.acc, next)

\* What JSON.parse may read next is told by st: a value ("value", or "first"
\* right after "[", where "]" may come too), a key ("key", or "firstKey"
\* right after "{", where "}" may come too), or what follows a value inside
\* an array or an object ("after").
\* The closing bracket c: of an empty array or object, or after a value of
\* the innermost one, which must be of c's kind.
CloseWith(c, st, stack, next) ==
    IF \/ st = (IF c = "]" THEN "first" ELSE "firstKey")
       \/ /\ st = "after"
          /\ stack[Len(stack)].kind = (IF c = "]" THEN "array" ELSE "object")
    THEN Closed(stack, stack[Len(stack)], next)
    ELSE End(SyntaxError)

\* After a key, at index colon, comes ":" and then the key's value.
KeyAt(s, colon, key, stack) ==
    IF colon <= Len(s) /\ s[colon] = ":"
    THEN GoOn(colon + 1, "value", [stack EXCEPT ![Len(stack)].key = key])
    ELSE End(SyntaxError)

\* The string str was read: a value, or the key of an object's member.
StringAt(s, str, st, stack) ==
    IF ~str.ok THEN End(SyntaxError)
    ELSE IF st \in {"value", "first"}
    THEN Given(stack, "string", str.val, str.next)
    ELSE KeyAt(s, SkipWs(s, str.next), str.val, stack)

\* The run of characters w at index j: a number or a literal name.
ScalarAt(w, j, stack) ==
    IF IsJsonNumber(w) \/ w \in JsonLiterals
    THEN Given(stack, (IF w \in JsonLiterals THEN "literal" ELSE "number"),
               w, j + Len(w))
    ELSE End(SyntaxError)

\* One step of JSON.parse at the character c of index j (c is "" at the end
\* of the text), stack holding the open arrays and objects, the innermost
\* last.
ParseChar(s, j, c, st, stack) ==
    IF c \in {"]", "}"} THEN CloseWith(c, st, stack, j + 1)
    ELSE IF st = "after"
    THEN IF c = ","
         THEN GoOn(j + 1,
                   (IF stack[Len(stack)].kind = "array" THEN "value" ELSE "key"),
                   stack)
         ELSE End(SyntaxError)
    ELSE IF c = QUOTE THEN StringAt(s, StringBody(s, j + 1, <<>>), st, stack)
    ELSE IF st \in {"key", "firstKey"} THEN End(SyntaxError)
    ELSE IF c \in {"[", "{"}
    THEN GoOn(j + 1, (IF c = "[" THEN "first" ELSE "firstKey"),
              Append(stack, Frame((IF c = "[" THEN "array" ELSE "object"),
                                  <<>>, <<>>)))
    ELSE ScalarAt(SubSeq(s, j, ScalarEnd(s, j) - 1), j, stack)

ParseAt(s, j, st, stack) ==
    ParseChar(s, j, (IF j <= Len(s) THEN s[j] ELSE ""), st, stack)

\* JSON.parse from index i on.  A string is its characters, an array the
\* sequence of its elements, an object the function from its keys to its
\* values, a number or a literal name its characters.
RECURSIVE ParseValue(_, _, _, _)
ParseNext(s, x) == IF x.done THEN x.res ELSE ParseValue(s, x.i, x.st, x.stack)
ParseValue(s, i, st, stack) == ParseNext(s, ParseAt(s, SkipWs(s, i), st, stack))

\* JSON.parse(content) of a whole text whose value v was read: ok is FALSE
\* when it throws, as it does when something follows the value.
WholeText(chars, v) ==
    IF v.ok /\ SkipWs(chars, v.next) > Len(chars)
    THEN [ok |-> TRUE, isArray |-> v.kind = "array",
          items |-> IF v.kind = "array" THEN v.val ELSE <<>>]
    ELSE [ok |-> FALSE, isArray |-> FALSE, items |-> <<>>]

JsonParseText(chars) == WholeText(chars, ParseValue(chars, 1, "value", <<>>))

\* A string as JSON.stringify writes it: quoted, with the quote, the
\* backslash and the control characters escaped.
EscapeChar(c) ==
    IF c = QUOTE THEN <<BSL, QUOTE>>
    ELSE IF c = BSL THEN <<BSL, BSL>>
    ELSE IF c = NL THEN <<BSL, "n">>
    ELSE IF c = TAB THEN <<BSL, "t">>
    ELSE <<c>>

RECURSIVE Escaped(_)
Escaped(s) == IF s = <<>> THEN <<>> ELSE EscapeChar(Head(s)) \o Escaped(Tail(s))

\* JsonQuote putting the characters between the quotes as they are.
MutJsonQuoteRaw(s) == <<QUOTE>> \o s \o <<QUOTE>>

JsonQuote(s) == <<QUOTE>> \o Escaped(s) \o <<QUOTE>>

\* Concatenation of the parts with sep between two of them.
RECURSIVE JoinWith(_, _)
JoinWith(parts, sep) ==
    IF parts = <<>> THEN <<>>
    ELSE IF Len(parts) = 1 THEN parts[1]
    ELSE parts[1] \o sep \o JoinWith(Tail(parts), sep)

\* JSON.stringify(tokens, null, 2): one member per line, indented by two
\* spaces per level, the fields in the order the record was built in.
JsonStringifyToken(tok) ==
    <<SP, SP, "{", NL>>
    \o JoinWith([i \in 1..Len(FieldOrder) |->
                    <<SP, SP, SP, SP>> \o JsonQuote(FieldChars[FieldOrder[i]])
                    \o <<":", SP>> \o JsonQuote(tok[FieldOrder[i]])],
                <<",", NL>>)
    \o <<NL, SP, SP, "}">>

JsonStringify(tokens) ==
    IF tokens = <<>> THEN <<"[", "]">>
    ELSE <<"[", NL>>
         \o JoinWith([i \in 1..Len(tokens) |-> JsonStringifyToken(tokens[i])],
                     <<",", NL>>)
         \o <<NL, "]">>

(* ------------------------------- decode -------------------------------- *)
\* Does JSON.parse accept this text?
IsJsonText(chars) == JsonParseText(chars).ok

\* JSON.parse(content) followed by the Array.isArray test: ok is FALSE when
\* JSON.parse throws.  A body kept structured is the text JSON.stringify
\* made of it.
\* ArrayOrEmpty taking a JSON value that is no array for a failed parse.
MutArrayOrEmptyThrows(parsed) ==
    [ok |-> parsed.ok /\ parsed.isArray, tokens |-> parsed.items]

ArrayOrEmpty(parsed) == [ok |-> parsed.ok, tokens |-> parsed.items]

JsonParse(body) ==
    IF body.kind = "json"
    THEN [ok |-> TRUE, tokens |-> IF body.isArray THEN body.items ELSE <<>>]
    ELSE ArrayOrEmpty(JsonParseText(body.chars))

\* content.split('\n').filter(line => line.trim() !== '')
RECURSIVE NonBlank(_)
NonBlank(lines) ==
    IF lines = <<>> THEN <<>>
    ELSE (IF Trim(Head(lines)) # <<>> THEN <<Head(lines)>> ELSE <<>>)
         \o NonBlank(Tail(lines))

\* `Token ${index + 1}` for the 0-based index of the line
DefaultName(index) == <<"T", "o", "k", "e", "n", SP>> \o NatToString(index + 1)

\* a || b for strings: the empty string is falsy
OrElse(a, b) == IF a = <<>> THEN b ELSE a

\* parts[i] || dflt, parts[i] undefined when the line has fewer parts
PartOr(parts, i, dflt) == IF i <= Len(parts) THEN OrElse(parts[i], dflt) ELSE dflt

\* The value of the record made of one non-blank line: the trimmed second
\* field (parts[1] || '') of a line with a tab, else the trimmed line.
LineValue(line) ==
    IF Includes(line, TAB)
    THEN Trim(PartOr(Split(line, TAB), 2, <<>>))
    ELSE Trim(line)

\* DecodeLine keeping the fields as the line has them, white space included.
MutDecodeLineNoTrim(line, index, t) ==
    IF Includes(line, TAB)
    THEN LET parts == Split(line, TAB)
         IN  Token(ConsistentId(PartOr(parts, 2, <<>>)),
                   PartOr(parts, 1, DefaultName(index)),
                   PartOr(parts, 2, <<>>),
                   PartOr(parts, 3, <<>>),
                   PartOr(parts, 4, ToISOString(t)))
    ELSE Token(ConsistentId(Trim(line)), DefaultName(index), Trim(line),
               <<>>, ToISOString(t))

\* The record made of one non-blank line of a plain-text file; index is the
\* line's 0-based position among the non-blank lines, t the time of the read.
DecodeLine(line, index, t) ==
    IF Includes(line, TAB)
    THEN LET parts == Split(line, TAB)
             name == PartOr(parts, 1, DefaultName(index))
             value == LineValue(line)
             tag == PartOr(parts, 3, <<>>)
             createdAt == PartOr(parts, 4, ToISOString(t))
         IN  Token(ConsistentId(value),
                   OrElse(Trim(name), DefaultName(index)),
                   value,
                   Trim(tag),
                   OrElse(Trim(createdAt), ToISOString(t)))
    ELSE LET tokenValue == LineValue(line)
         IN  Token(ConsistentId(tokenValue), DefaultName(index), tokenValue,
                   <<>>, ToISOString(t))

\* The fallback of getGitHubFile: one record per non-blank line.
DecodeText(chars, t) ==
    LET lines == NonBlank(Split(chars, NL))
    IN  [i \in 1..Len(lines) |-> DecodeLine(lines[i], i - 1, t)]

\* The list of records getGitHubFile makes of a file body read at time t.
OrLines(parsed, chars, t) ==
    IF parsed.ok THEN parsed.tokens ELSE DecodeText(chars, t)

Decode(body, t) == OrLines(JsonParse(body), body.chars, t)

\* One line of the plain-text format: name, value, tag, date, tab-separated.
EncodeLine(tok, t) ==
    LET tag == IF tok.tag # <<>> /\ Trim(tok.tag) # <<>> THEN tok.tag ELSE <<>>
        date == OrElse(tok.createdAt, ToISOString(t))
    IN  tok.name \o <<TAB>> \o tok.value \o <<TAB>> \o tag \o <<TAB>> \o date

\* The file body updateGitHubFile writes for a list of records at time t:
\* JSON.stringify when the configured path ends in .json, else the lines.
Encode(tokens, useJson, t) ==
    IF useJson THEN JsonArrayBody(tokens)
    ELSE TextBody(Join([i \in 1..Len(tokens) |-> EncodeLine(tokens[i], t)], NL))

(* ------------------------------- state --------------------------------- *)
VARIABLES
    remote,         \* the file in the GitHub repository: exists, body, sha
    useJsonFormat,  \* GITHUB_FILE_PATH.endsWith('.json')
    clock,          \* the last value the millisecond clock returned
    started,        \* number of HTTP requests received so far
    req,            \* the request each slot is serving, and how far it is
    last,           \* the request answered last, with its answer
    accepted,       \* history: what each accepted write's request had read
    lastWrite,      \* history: the last accepted write: its request's op,
                    \* record and list, and the body it replaced
    codec,          \* the codec applied on its own: input and result
    client          \* the page in the browser: its lists and its handlers

vars == <<remote, useJsonFormat, clock, started, req, last, accepted, lastWrite,
          codec, client>>

\* The requests in flight: the races are between two requests.
Slots == {1, 2}

\* The answer of the Contents API to a GET: 200 with body and sha, 404 when
\* the file does not exist, 500 for any other failure (network, 401, 5xx).
GetResponse(status, body, sha) == [status |-> status, body |-> body, sha |-> sha]
NoResponse == GetResponse(0, NoBody, 0)

\* The body of a PUT to the Contents API; hasSha is FALSE when the payload
\* has no sha key.
Payload(content, hasSha, sha) == [content |-> content, hasSha |-> hasSha, sha |-> sha]
NoPayload == Payload(NoBody, FALSE, 0)

\* The codec not applied yet.
NoCodec ==
    [op |-> "none", tokens |-> <<>>, chars |-> <<>>, t |-> 0, threw |-> FALSE,
     out |-> <<>>, again |-> <<>>]

NoWrite == [op |-> "none", rec |-> NoToken, tokens |-> <<>>, before |-> NoBody]

\* The page as script.js sets it up, no handler running: tokens (the local
\* list), selectedTokens (a Set, kept in insertion order),
\* parsedWhatsappTokens; then the locals of the handler that runs, and the
\* history of its requests.
NoClient ==
    [ tokens |-> <<>>, selectedTokens |-> <<>>, parsedWhatsappTokens |-> <<>>,
      textarea |-> <<>>,                     \* whatsappTextarea.value, in lines
      op |-> "none", pc |-> "idle",
      tokenId |-> <<>>,                      \* deleteToken(tokenId)
      idsToDelete |-> <<>>, deleted |-> 0,   \* deleteSelectedTokens
      importing |-> <<>>,                    \* the array importParsedTokens walks
      tag |-> <<>>,                          \* whatsappTagInput.value
      imported |-> 0, failed |-> 0, duplicates |-> 0,
      i |-> 0,                               \* position of the for loop
      shown |-> 0,                           \* the count showStatus reported
      before |-> <<>>,                       \* history: tokens when it began
      asked |-> <<>>,                        \* history: the requests sent
      outcomes |-> <<>> ]                    \* history: their outcomes

IdleReq ==
    [ op |-> "none", pc |-> "idle",
      name |-> None, token |-> None, tag |-> None,   \* req.body
      createdAt |-> None,
      id |-> <<>>,                                   \* req.params.id
      getResp |-> NoResponse,                        \* what the read returned
      read |-> <<>>,                                 \* the list as decoded
      tokens |-> <<>>, sha |-> 0,                    \* { content: tokens, sha }
      rec |-> NoToken,                               \* newToken / deletedToken
      payload |-> NoPayload,                         \* what the write sent
      putStatus |-> 0,                               \* the answer to the write
      nGet |-> 0, nPut |-> 0,                        \* remote calls made
      status |-> 0, success |-> FALSE, message |-> "",
      resTokens |-> <<>>, resToken |-> NoToken,      \* the JSON answer
      after |-> NoWrite ]                            \* history, see lastWrite

\* A file the repository can hold before the server starts.
InitFiles ==
    { NoBody,
      JsonArrayBody(<< Token(<<"0">>, <<"n">>, <<"a">>, <<>>, <<"0", "Z">>) >>),
      TextBody(<<"n", TAB, "a", NL, "b", NL>>) }

\* Two values that differ in their eleventh character only, so that their
\* first ten and their last ten characters are the same.
Tens == <<"a", "a", "a", "a", "a", "a", "a", "a", "a", "a">>
LongValue(c) == Tens \o <<c>> \o Tens

\* A legacy file written by hand: two bare lines, two different values.
LegacyFiles ==
    { TextBody(LongValue("b") \o <<NL>> \o LongValue("n") \o <<NL>>) }

\* The server starts with one of the files in the repository.
\* The page starts as one of pages, the path is .json or not as formats say.
InitWith(files, formats, pages) ==
    /\ \E f \in files :
          remote = [exists |-> f.kind # "none", body |-> f,
                    sha |-> IF f.kind # "none" THEN 1 ELSE 0]
    /\ useJsonFormat \in formats
    /\ clock = 1
    /\ started = 0
    /\ req = [r \in Slots |-> IdleReq]
    /\ last = IdleReq
    /\ accepted = <<>>
    /\ lastWrite = NoWrite
    /\ codec = NoCodec
    /\ client \in pages

\* The server on its own: the page is not looked at.
InitFrom(files) == InitWith(files, BOOLEAN, {NoClient})

Init == InitFrom(InitFiles)

InitLegacy == InitFrom(LegacyFiles)

\* Files that hold one JSON value that is no array: a bare number (a legacy
\* file of one numeric value), an object, a quoted string, a literal name.
ScalarFiles ==
    { TextBody(<<"7">>), TextBody(<<"{", "}">>), TextBody(<<QUOTE, "a", QUOTE>>),
      TextBody(<<"n", "u", "l", "l">>) }

InitScalar == InitFrom(ScalarFiles)

(* --------------------------- HTTP responses ---------------------------- *)
\* res.status(status).json({ success, message, ... }): the answer of q.
Answer(q, status, success, message) ==
    [q EXCEPT !.pc = "done", !.status = status, !.success = success,
              !.message = message]

\* Slot r leaves its request in state q: still running, or answered.
Step(r, q) ==
    /\ req' = [req EXCEPT ![r] = IF q.pc = "done" THEN IdleReq ELSE q]
    /\ last' = IF q.pc = "done" THEN q ELSE last

Free(r) == req[r].pc = "idle"

\* The slots are interchangeable: a new request takes the first free one.
CanReceive(r) ==
    /\ Free(r)
    /\ \A x \in 1..(r - 1) : ~Free(x)
    /\ started < MaxRequests

Receive(r, q) ==
    /\ CanReceive(r)
    /\ started' = started + 1
    /\ Step(r, q)
    /\ UNCHANGED <<remote, useJsonFormat, clock, accepted, lastWrite, codec,
                 client>>

NewReq(op) == [IdleReq EXCEPT !.op = op]

(* ------------------------------ requests ------------------------------- *)
\* A request body { name, token, tag, createdAt }.
Body(name, token, tag, createdAt) ==
    [name |-> name, token |-> token, tag |-> tag, createdAt |-> createdAt]

\* The request bodies clients post.
InsertBodies ==
    { Body(Some(<<"n">>), Some(<<"a">>), None, None),
      Body(Some(<<"t">>), Some(<<SP, "a">>), Some(<<"t">>), Some(<<"0", "Z">>)),
      Body(Some(<<"n">>), Some(<<"b", TAB, "a">>), None, None),
      Body(None, Some(<<"a">>), None, None),
      Body(Some(<<>>), Some(<<"a">>), None, None),
      Body(Some(<<SP>>), Some(<<"a">>), None, None),
      Body(Some(<<"n">>), None, None, None),
      Body(Some(<<"n">>), Some(<<>>), None, None),
      Body(Some(<<"n">>), Some(<<SP, TAB>>), None, None) }

\* The request bodies clients put.
UpdateBodies ==
    { Body(Some(<<"n">>), Some(<<"b">>), Some(<<"t">>), Some(<<"0", "Z">>)) }

\* !x || x.trim() === '' for an optional string
IsBlank(opt) == opt = None \/ opt[1] = <<>> \/ Trim(opt[1]) = <<>>

\* An id no record has.
BogusId == <<"x">>

\* The ids a client can name: those of the stored records, the one the last
\* answer carried, and one that no record has.
KnownIds ==
    LET stored == Decode(remote.body, clock)
    IN  {BogusId}
        \cup {stored[i].id : i \in 1..Len(stored)}
        \cup (IF last.success /\ last.op = "insert" THEN {last.resToken.id} ELSE {})

\* GET /api/health: answers at once, no remote call.
Health(r) ==
    Receive(r, Answer(NewReq("health"), 200, TRUE, "running"))

\* GET /api/tokens, up to the await of getGitHubFile.
ListStart(r) ==
    Receive(r, [NewReq("list") EXCEPT !.pc = "getSent"])

\* Validate without the trim: only a missing or empty field is refused.
MutValidateNoTrim(q) ==
    IF q.name = None \/ q.name[1] = <<>>
    THEN Answer(q, 400, FALSE, "Name cannot be empty")
    ELSE IF q.token = None \/ q.token[1] = <<>>
    THEN Answer(q, 400, FALSE, "Token cannot be empty")
    ELSE [q EXCEPT !.pc = "getSent"]

\* The validation of POST /api/tokens: the answer it sends, or the request
\* going on to the await of getGitHubFile.
Validate(q) ==
    IF IsBlank(q.name) THEN Answer(q, 400, FALSE, "Name cannot be empty")
    ELSE IF IsBlank(q.token) THEN Answer(q, 400, FALSE, "Token cannot be empty")
    ELSE [q EXCEPT !.pc = "getSent"]

\* POST /api/tokens, up to the await of getGitHubFile.
InsertStart(r) ==
    /\ CanReceive(r)
    /\ \E b \in InsertBodies :
          Receive(r, Validate([NewReq("insert") EXCEPT !.name = b.name,
                                                       !.token = b.token,
                                                       !.tag = b.tag,
                                                       !.createdAt = b.createdAt]))

\* DELETE /api/tokens/:id, up to the await of getGitHubFile.
DeleteStart(r) ==
    /\ CanReceive(r)
    /\ \E id \in KnownIds :
          Receive(r, [NewReq("delete") EXCEPT !.id = id, !.pc = "getSent"])

\* PUT /api/tokens/:id: the application registers no PUT route, so Express
\* answers 404 itself; no handler runs.
UpdateStart(r) ==
    /\ CanReceive(r)
    /\ \E id \in KnownIds, b \in UpdateBodies :
          Receive(r, Answer([NewReq("update") EXCEPT !.id = id, !.name = b.name,
                                                     !.token = b.token, !.tag = b.tag,
                                                     !.createdAt = b.createdAt],
                            404, FALSE, "Cannot PUT"))

(* --------------------------- the remote store -------------------------- *)
\* The Contents API serves the GET of request r.
RemoteGet(r) ==
    /\ req[r].pc = "getSent"
    /\ Step(r, [req[r] EXCEPT !.pc = "gotFile",
                              !.nGet = @ + 1,
                              !.getResp = IF remote.exists
                                          THEN GetResponse(200, remote.body, remote.sha)
                                          ELSE GetResponse(404, NoBody, 0),
                              !.after = IF req[r].op = "list" THEN lastWrite
                                        ELSE NoWrite])
    /\ UNCHANGED <<remote, useJsonFormat, clock, started, accepted, lastWrite, codec,
                 client>>

\* The GET of request r fails with something other than a 404.
RemoteGetFail(r) ==
    /\ req[r].pc = "getSent"
    /\ Step(r, [req[r] EXCEPT !.pc = "gotFile", !.nGet = @ + 1,
                              !.getResp = GetResponse(500, NoBody, 0)])
    /\ UNCHANGED <<remote, useJsonFormat, clock, started, accepted, lastWrite, codec,
                 client>>

\* Does the store accept this PUT?  An update must name the sha the file has
\* now; a PUT without sha creates the file and is refused when it exists.
PutAccepted(store, payload) ==
    IF store.exists
    THEN payload.hasSha /\ payload.sha = store.sha
    ELSE ~payload.hasSha

\* The Contents API serves the PUT of request r: it commits the new body
\* under a new sha, or rejects the request (409, 422).
RemotePut(r) ==
    /\ req[r].pc = "putSent"
    /\ LET ok == PutAccepted(remote, req[r].payload)
       IN  /\ Step(r, [req[r] EXCEPT !.pc = "putDone", !.nPut = @ + 1,
                                     !.putStatus = IF ok THEN 200 ELSE 409])
           /\ remote' = IF ok
                        THEN [exists |-> TRUE, body |-> req[r].payload.content,
                              sha |-> remote.sha + 1]
                        ELSE remote
           /\ accepted' = IF ok
                          THEN Append(accepted, [status |-> req[r].getResp.status,
                                                 sha |-> req[r].getResp.sha])
                          ELSE accepted
           /\ lastWrite' = IF ok
                           THEN [op |-> req[r].op, rec |-> req[r].rec,
                                 tokens |-> req[r].tokens, before |-> remote.body]
                           ELSE lastWrite
    /\ UNCHANGED <<useJsonFormat, clock, started, codec, client>>

\* The PUT of request r fails before the store commits anything.
RemotePutFail(r) ==
    /\ req[r].pc = "putSent"
    /\ Step(r, [req[r] EXCEPT !.pc = "putDone", !.nPut = @ + 1, !.putStatus = 500])
    /\ UNCHANGED <<remote, useJsonFormat, clock, started, accepted, lastWrite, codec,
                 client>>

(* ------------------------ the handlers, resumed ------------------------ *)
\* Does decoding one non-blank line call new Date()?
LineReadsClock(line) ==
    IF Includes(line, TAB)
    THEN LET parts == Split(line, TAB)
         IN  Len(parts) < 4 \/ Trim(parts[4]) = <<>>
    ELSE TRUE

\* Does getGitHubFile read the clock for this answer of the GET?
ReadsClock(resp) ==
    /\ resp.status = 200
    /\ ~JsonParse(resp.body).ok
    /\ LET lines == NonBlank(Split(resp.body.chars, NL))
       IN  \E i \in 1..Len(lines) : LineReadsClock(lines[i])

\* getGitHubFile rethrowing the 404 as any other error.
MutGetGitHubFileThrowsOn404(resp, t) ==
    IF resp.status = 200
    THEN [threw |-> FALSE, content |-> Decode(resp.body, t), sha |-> resp.sha]
    ELSE [threw |-> TRUE, content |-> <<>>, sha |-> 0]

\* getGitHubFile without the catch of the JSON error: it rethrows.
MutGetGitHubFileNoFallback(resp, t) ==
    IF resp.status = 200
    THEN [threw |-> ~JsonParse(resp.body).ok,
          content |-> JsonParse(resp.body).tokens, sha |-> resp.sha]
    ELSE IF resp.status = 404
    THEN [threw |-> FALSE, content |-> <<>>, sha |-> 0]
    ELSE [threw |-> TRUE, content |-> <<>>, sha |-> 0]

\* getGitHubFile treating every failure of the GET as a missing file.
MutGetGitHubFileEmptyOnError(resp, t) ==
    IF resp.status = 200
    THEN [threw |-> FALSE, content |-> Decode(resp.body, t), sha |-> resp.sha]
    ELSE [threw |-> FALSE, content |-> <<>>, sha |-> 0]

\* What getGitHubFile returns for the answer of the GET, read at time t:
\* { content, sha }, sha 0 standing for null; threw when it rethrows.
GetGitHubFile(resp, t) ==
    IF resp.status = 200
    THEN [threw |-> FALSE, content |-> Decode(resp.body, t), sha |-> resp.sha]
    ELSE IF resp.status = 404
    THEN [threw |-> FALSE, content |-> <<>>, sha |-> 0]
    ELSE [threw |-> TRUE, content |-> <<>>, sha |-> 0]

\* UpdatePayload sending the sha the file has when the write is made, not
\* the one this request read.
MutUpdatePayloadCurrentSha(tokens, sha, t) ==
    Payload(Encode(tokens, useJsonFormat, t), remote.exists,
            IF remote.exists THEN remote.sha ELSE 0)

\* UpdatePayload writing the file in the format it has now.
MutUpdatePayloadAsStored(tokens, sha, t) ==
    Payload(Encode(tokens,
                   (IF remote.exists THEN remote.body.kind = "json"
                    ELSE useJsonFormat), t),
            sha # 0, IF sha # 0 THEN sha ELSE 0)

\* The payload updateGitHubFile puts: the encoded list, and the sha unless
\* it is null.
UpdatePayload(tokens, sha, t) ==
    Payload(Encode(tokens, useJsonFormat, t), sha # 0, IF sha # 0 THEN sha ELSE 0)

\* IsDuplicate comparing the names instead of the values.
MutIsDuplicateByName(tokens, newToken) ==
    \E i \in 1..Len(tokens) : tokens[i].name = newToken.name

\* tokens.some(t => t.value === newToken.value)
IsDuplicate(tokens, newToken) ==
    \E i \in 1..Len(tokens) : tokens[i].value = newToken.value

\* FindIndex answering the last record with the id, not the first.
MutFindIndexLast(tokens, id) ==
    IF \E i \in 1..Len(tokens) : tokens[i].id = id
    THEN CHOOSE i \in 1..Len(tokens) :
            tokens[i].id = id /\ \A j \in (i + 1)..Len(tokens) : tokens[j].id # id
    ELSE 0

\* tokens.findIndex(t => t.id === id), 1-based; 0 when there is none
FindIndex(tokens, id) ==
    IF \E i \in 1..Len(tokens) : tokens[i].id = id
    THEN CHOOSE i \in 1..Len(tokens) :
            tokens[i].id = id /\ \A j \in 1..(i - 1) : tokens[j].id # id
    ELSE 0

\* Splice taking out every record that has the id of the one at index i.
MutSpliceSameId(tokens, i) ==
    SelectSeq(tokens, LAMBDA x : x.id # tokens[i].id)

\* tokens.splice(i, 1) for the 1-based index i: the list without that element
Splice(tokens, i) == SubSeq(tokens, 1, i - 1) \o SubSeq(tokens, i + 1, Len(tokens))

\* The times the clock can return now: its last value (the same millisecond)
\* or the next one; only the order and the equality of two readings matter,
\* so time is counted in the ticks between two readings.
Times == {t \in clock..MaxClock : t <= clock + 1}

\* ListResult that, having converted a plain-text file to records, goes on
\* to write them back.
MutListResultWritesBack(q, t) ==
    LET file == GetGitHubFile(q.getResp, t)
        q1 == [q EXCEPT !.read = file.content, !.tokens = file.content,
                        !.sha = file.sha, !.resTokens = file.content]
    IN  IF file.threw
        THEN Answer(q, 500, FALSE, "Failed to fetch tokens from GitHub")
        ELSE IF q.getResp.body.kind = "text"
        THEN [q1 EXCEPT !.payload = UpdatePayload(file.content, file.sha, t),
                        !.pc = "putSent"]
        ELSE Answer(q1, 200, TRUE, "")

\* GET /api/tokens after the await: the answer.
ListResult(q, t) ==
    LET file == GetGitHubFile(q.getResp, t)
    IN  IF file.threw
        THEN Answer(q, 500, FALSE, "Failed to fetch tokens from GitHub")
        ELSE Answer([q EXCEPT !.read = file.content, !.tokens = file.content,
                              !.sha = file.sha, !.resTokens = file.content],
                    200, TRUE, "")

ListAfterRead(r) ==
    /\ req[r].pc = "gotFile" /\ req[r].op = "list"
    /\ \E t \in (IF ReadsClock(req[r].getResp) THEN Times ELSE {clock}) :
          /\ clock' = t
          /\ Step(r, ListResult(req[r], t))
    /\ UNCHANGED <<remote, useJsonFormat, started, accepted, lastWrite, codec,
                 client>>

\* The record POST /api/tokens creates at time t; the handler takes name,
\* token and tag out of the body and does not look at its createdAt.
NewToken(q, t) ==
    Token(NatToString(t), Trim(q.name[1]), Trim(q.token[1]),
          IF q.tag = None THEN <<>> ELSE q.tag[1], ToISOString(t))

\* POST /api/tokens after the await of getGitHubFile: the answer it sends, or
\* the request going on to the await of updateGitHubFile.
InsertResult(q, t) ==
    LET file == GetGitHubFile(q.getResp, t)
        newToken == NewToken(q, t)
        tokens == Append(file.content, newToken)
        q1 == [q EXCEPT !.read = file.content, !.sha = file.sha,
                        !.tokens = file.content, !.rec = newToken]
    IN  IF file.threw THEN Answer(q, 500, FALSE, "Failed to add token")
        ELSE IF IsDuplicate(file.content, newToken)
        THEN Answer(q1, 400, FALSE, "Token already exists")
        ELSE [q1 EXCEPT !.tokens = tokens,
                        !.payload = UpdatePayload(tokens, file.sha, t),
                        !.pc = "putSent"]

InsertAfterRead(r) ==
    /\ req[r].pc = "gotFile" /\ req[r].op = "insert"
    /\ \E t \in (IF req[r].getResp.status = 500 THEN {clock} ELSE Times) :
          /\ clock' = t
          /\ Step(r, InsertResult(req[r], t))
    /\ UNCHANGED <<remote, useJsonFormat, started, accepted, lastWrite, codec,
                 client>>

\* DeleteResult without the test of the index: tokens.splice(-1, 1) takes the
\* last record out.
MutDeleteResultNoCheck(q, t) ==
    LET file == GetGitHubFile(q.getResp, t)
        found == FindIndex(file.content, q.id)
        tokenIndex == IF found = 0 THEN Len(file.content) ELSE found
        tokens == Splice(file.content, tokenIndex)
        q1 == [q EXCEPT !.read = file.content, !.sha = file.sha,
                        !.tokens = file.content]
    IN  IF file.threw THEN Answer(q, 500, FALSE, "Failed to delete token")
        ELSE [q1 EXCEPT !.rec = IF tokenIndex = 0 THEN NoToken
                                ELSE file.content[tokenIndex],
                        !.tokens = tokens,
                        !.payload = UpdatePayload(tokens, file.sha, t),
                        !.pc = "putSent"]

\* DELETE /api/tokens/:id after the await of getGitHubFile: the answer it
\* sends, or the request going on to the await of updateGitHubFile.
DeleteResult(q, t) ==
    LET file == GetGitHubFile(q.getResp, t)
        tokenIndex == FindIndex(file.content, q.id)
        tokens == Splice(file.content, tokenIndex)
        q1 == [q EXCEPT !.read = file.content, !.sha = file.sha,
                        !.tokens = file.content]
    IN  IF file.threw THEN Answer(q, 500, FALSE, "Failed to delete token")
        ELSE IF tokenIndex = 0 THEN Answer(q1, 404, FALSE, "Token not found")
        ELSE [q1 EXCEPT !.rec = file.content[tokenIndex],
                        !.tokens = tokens,
                        !.payload = UpdatePayload(tokens, file.sha, t),
                        !.pc = "putSent"]

DeleteAfterRead(r) ==
    /\ req[r].pc = "gotFile" /\ req[r].op = "delete"
    /\ \E t \in (IF ReadsClock(req[r].getResp) THEN Times ELSE {clock}) :
          /\ clock' = t
          /\ Step(r, DeleteResult(req[r], t))
    /\ UNCHANGED <<remote, useJsonFormat, started, accepted, lastWrite, codec,
                 client>>

\* WriteResult that, when the write failed, runs the request once more from
\* its read.
MutWriteResultRetryOnce(q, done, failed) ==
    IF q.putStatus = 200 THEN Answer([q EXCEPT !.resToken = q.rec], 200, TRUE, done)
    ELSE IF q.nPut < 2 THEN [q EXCEPT !.pc = "getSent"]
    ELSE Answer(q, 500, FALSE, failed)

\* WriteResult that does not look at the outcome of the write.
MutWriteResultAlwaysOk(q, done, failed) ==
    Answer([q EXCEPT !.resToken = q.rec], 200, TRUE, done)

\* The answer after the await of updateGitHubFile: success with the record,
\* or the catch block when updateGitHubFile threw.
WriteResult(q, done, failed) ==
    IF q.putStatus = 200 THEN Answer([q EXCEPT !.resToken = q.rec], 200, TRUE, done)
    ELSE Answer(q, 500, FALSE, failed)

\* POST /api/tokens after the await of updateGitHubFile.
InsertAfterWrite(r) ==
    /\ req[r].pc = "putDone" /\ req[r].op = "insert"
    /\ Step(r, WriteResult(req[r], "Token added successfully", "Failed to add token"))
    /\ UNCHANGED <<remote, useJsonFormat, clock, started, accepted, lastWrite, codec,
                 client>>

\* DELETE /api/tokens/:id after the await of updateGitHubFile.
DeleteAfterWrite(r) ==
    /\ req[r].pc = "putDone" /\ req[r].op = "delete"
    /\ Step(r, WriteResult(req[r], "Token deleted successfully",
                           "Failed to delete token"))
    /\ UNCHANGED <<remote, useJsonFormat, clock, started, accepted, lastWrite, codec,
                 client>>

(* --------------------------- specification ----------------------------- *)
Next ==
    \E r \in Slots :
        \/ Health(r)
        \/ ListStart(r)
        \/ InsertStart(r)
        \/ DeleteStart(r)
        \/ UpdateStart(r)
        \/ RemoteGet(r)
        \/ RemoteGetFail(r)
        \/ RemotePut(r)
        \/ RemotePutFail(r)
        \/ ListAfterRead(r)
        \/ InsertAfterRead(r)
        \/ DeleteAfterRead(r)
        \/ InsertAfterWrite(r)
        \/ DeleteAfterWrite(r)

Spec == Init /\ [][Next]_vars

\* The server started on a legacy file.
SpecLegacy == InitLegacy /\ [][Next]_vars

\* The server started on a file that is JSON but no array.
SpecScalar == InitScalar /\ [][Next]_vars

(* ------------------------- the codec on its own ------------------------ *)
\* The strings the fields of the records to encode are taken from: empty,
\* plain, and with the characters JSON and the text format give a meaning.
CodecStrings ==
    { <<>>, <<"a">>, <<QUOTE>>, <<BSL>>, <<BSL, "n">>, <<"a", TAB, NL>>,
      <<SP, "a", SP>>, <<"[", "{", ":", ",", "}", "]">> }

\* The records to encode.
CodecTokens ==
    { Token(s, x, s, x, s) : s \in CodecStrings, x \in {<<>>, <<"a", QUOTE>>} }

\* The well-formed lists: up to MaxListLen records, every field a string.
CodecLists == UNION { [1..n -> CodecTokens] : n \in 0..MaxListLen }

\* The fields of the lines of a plain-text file: empty, plain, padded with
\* white space, white space only, a number.
CodecFields == { <<>>, <<"a">>, <<SP, "b", SP>>, <<SP>>, <<"7">> }

\* The lines of one to four tab-separated fields.
CodecLines ==
    UNION { { Join(f, TAB) : f \in [1..n -> CodecFields] } : n \in 1..4 }

\* The plain-text files: one such line, alone, before an end of line, after
\* a bare line, after an empty line, after a line of white space; and the
\* legacy files.
CodecTexts ==
    UNION { { l, l \o <<NL>>, <<"b", NL>> \o l, <<NL>> \o l, <<SP, NL>> \o l }
            : l \in CodecLines }
    \cup { f.chars : f \in LegacyFiles }

\* One record as JSON.stringify writes it.
OneRecordText ==
    JsonStringify(<< Token(<<"1">>, <<"n">>, <<"a">>, <<>>, <<"0", "Z">>) >>)

\* Files that are JSON but no array of records, and files that are almost
\* JSON: cut short, or with a comma too many.
CodecJunk ==
    { <<"7">>, <<"n", "u", "l", "l">>, <<"{", "}">>, <<QUOTE, "a", QUOTE>>,
      <<"[", "]">>, <<"[", "n", "u", "l", "l", "]">>,
      <<"[">>, <<"{">>, <<QUOTE>>, <<"t", "r", "u">>, <<"[", "1", ",", "]">> }
    \cup { SubSeq(OneRecordText, 1, n) : n \in {9, Len(OneRecordText) - 1} }

\* The server's variables while the codec is applied on its own.
ServerIdle == UNCHANGED <<remote, useJsonFormat, clock, started, req, last,
                          accepted, lastWrite>>

\* A list is encoded as JSON (updateGitHubFile with a .json path), and the
\* file is read back (getGitHubFile).
CodecJson ==
    /\ codec.op = "none"
    /\ \E tokens \in CodecLists :
          LET chars == JsonStringify(tokens)
              file == GetGitHubFile(GetResponse(200, TextBody(chars), 1), clock)
          IN  codec' = [op |-> "json", tokens |-> tokens, chars |-> chars,
                        t |-> clock, threw |-> file.threw, out |-> file.content,
                        again |-> file.content]
    /\ ServerIdle
    /\ UNCHANGED client

\* A file is read (getGitHubFile) at time t, and once more at a later time.
CodecText ==
    /\ codec.op = "none"
    /\ \E chars \in CodecTexts \cup CodecJunk, t \in 1..MaxClock :
          \E t2 \in t..MaxClock :
             LET file == GetGitHubFile(GetResponse(200, TextBody(chars), 1), t)
                 file2 == GetGitHubFile(GetResponse(200, TextBody(chars), 1), t2)
             IN  codec' = [op |-> "text", tokens |-> <<>>, chars |-> chars,
                           t |-> t, threw |-> file.threw \/ file2.threw,
                           out |-> file.content, again |-> file2.content]
    /\ ServerIdle
    /\ UNCHANGED client

InitCodec == InitFrom({NoBody})

NextCodec == CodecJson \/ CodecText

SpecCodec == InitCodec /\ [][NextCodec]_vars

(* ------------------------- the page: deleting -------------------------- *)
\* What the page gets from an awaited fetch and response.json(): the JSON
\* answer of the server, with success true or false and a message, or an
\* exception (no connection, an answer that is not JSON).
Outcome(kind, message) == [kind |-> kind, message |-> message]
Thrown == Outcome("throws", "")

\* The outcomes of DELETE /api/tokens/:id.
DeleteOutcomes ==
    { Outcome("success", "Token deleted successfully"),
      Outcome("failure", "Token not found"),
      Outcome("failure", "Failed to delete token"),
      Thrown }

\* The lists GET /api/tokens answers: none, one record of a JSON file, the
\* two records of the legacy file (one derived id for both), and both kinds.
StoredRecord == Token(<<"1">>, <<"n">>, <<"a">>, <<>>, <<"0", "Z">>)
LegacyRecords == CHOOSE f \in {DecodeText(b.chars, 1) : b \in LegacyFiles} : TRUE
ClientLists ==
    { <<>>, <<StoredRecord>>, LegacyRecords, <<StoredRecord>> \o LegacyRecords }

\* The outcomes of GET /api/tokens.
LoadOutcomes == {"loaded", "failed"}

\* The ids of the rows the page shows.
RowIds(c) == {c.tokens[k].id : k \in 1..Len(c.tokens)}

\* tokens.filter(t => t.id !== id)
WithoutId(tokens, id) == SelectSeq(tokens, LAMBDA t : t.id # id)

\* Set.prototype.has, add and delete on a Set kept in insertion order.
Has(set, x) == \E k \in 1..Len(set) : set[k] = x
Add(set, x) == IF Has(set, x) THEN set ELSE Append(set, x)
Remove(set, x) == SelectSeq(set, LAMBDA y : y # x)

RECURSIVE AddAll(_, _)
AddAll(set, xs) == IF xs = <<>> THEN set ELSE AddAll(Add(set, Head(xs)), Tail(xs))

\* A handler begins: its locals and its history are fresh.
Begin(c, op) ==
    [c EXCEPT !.op = op, !.pc = "done", !.tokenId = <<>>, !.idsToDelete = <<>>,
              !.deleted = 0, !.importing = <<>>, !.tag = <<>>, !.imported = 0,
              !.failed = 0, !.duplicates = 0, !.i = 0, !.shown = 0,
              !.before = c.tokens, !.asked = <<>>, !.outcomes = <<>>]

\* A handler that awaits nothing ran: the handler that had returned before
\* it is no longer the last one, and its history is dropped.
Since(c) ==
    IF c.pc = "done" THEN [Begin(c, "none") EXCEPT !.pc = "idle", !.before = <<>>]
    ELSE c

\* No handler is waiting for an answer: the user starts one at a time.
ClientIdle == client.pc \in {"idle", "done"}

\* The server's variables and the codec while the page runs.
PageOnly ==
    UNCHANGED <<remote, useJsonFormat, clock, started, req, last, accepted,
                lastWrite, codec>>

\* toggleTokenSelection(tokenId), of a row's checkbox.
ToggleTokenSelection ==
    /\ \E id \in RowIds(client) :
          client' = [Since(client) EXCEPT !.selectedTokens =
                        IF Has(@, id) THEN Remove(@, id) ELSE Add(@, id)]
    /\ PageOnly

\* toggleSelectAll: every row shown (no search, no filter) or none.
ToggleSelectAll ==
    /\ \E checked \in BOOLEAN :
          client' = [Since(client) EXCEPT !.selectedTokens =
                        IF checked
                        THEN AddAll(@, [k \in 1..Len(client.tokens) |->
                                           client.tokens[k].id])
                        ELSE <<>>]
    /\ PageOnly

\* loadTokens, up to the await of the fetch.
LoadStart ==
    /\ ClientIdle
    /\ client' = [Begin(client, "load") EXCEPT !.pc = "awaiting"]
    /\ PageOnly

\* loadTokens after the await: the list answered replaces the local one.
LoadAnswer ==
    /\ client.op = "load" /\ client.pc = "awaiting"
    /\ \E o \in LoadOutcomes, list \in ClientLists :
          client' = [client EXCEPT !.pc = "done",
                                   !.tokens = IF o = "loaded" THEN list ELSE @]
    /\ PageOnly

\* deleteToken(tokenId) of a row, up to the await of the fetch; it returns
\* at once when the user does not confirm.
DeleteTokenStart ==
    /\ ClientIdle
    /\ \E id \in RowIds(client), confirmed \in BOOLEAN :
          client' = IF confirmed
                    THEN [Begin(client, "deleteToken") EXCEPT
                             !.pc = "awaiting", !.tokenId = id, !.asked = <<id>>]
                    ELSE [Begin(client, "deleteToken") EXCEPT !.tokenId = id]
    /\ PageOnly

\* DeleteTokenResult taking the row out whatever the answer.
MutDeleteTokenResultAlways(c, o) ==
    [c EXCEPT !.pc = "done", !.outcomes = <<o>>,
              !.tokens = WithoutId(@, c.tokenId)]

\* deleteToken after the await: on success the records with the id leave the
\* local list; a failure is thrown into the catch with the exceptions.
DeleteTokenResult(c, o) ==
    [c EXCEPT !.pc = "done", !.outcomes = <<o>>,
              !.tokens = IF o.kind = "success" THEN WithoutId(@, c.tokenId) ELSE @]

DeleteTokenAnswer ==
    /\ client.op = "deleteToken" /\ client.pc = "awaiting"
    /\ \E o \in DeleteOutcomes : client' = DeleteTokenResult(client, o)
    /\ PageOnly

\* deleteSelectedTokens, up to the await of the first fetch; it returns at
\* once when nothing is selected or the user does not confirm.
DeleteSelectedStart ==
    /\ ClientIdle
    /\ client.selectedTokens # <<>>
    /\ \E confirmed \in BOOLEAN :
          client' = IF confirmed
                    THEN [Begin(client, "deleteSelected") EXCEPT
                             !.pc = "awaiting",
                             !.idsToDelete = client.selectedTokens,
                             !.i = 1,
                             !.asked = <<client.selectedTokens[1]>>]
                    ELSE Begin(client, "deleteSelected")
    /\ PageOnly

\* DeleteSelectedResult keeping selected, at the end, the ids not deleted.
MutDeleteSelectedResultKeepsFailed(c, o) ==
    LET id == c.idsToDelete[c.i]
        c1 == [c EXCEPT !.outcomes = Append(@, o),
                        !.tokens = IF o.kind = "success" THEN WithoutId(@, id) ELSE @,
                        !.deleted = IF o.kind = "success" THEN @ + 1 ELSE @]
    IN  IF c.i < Len(c.idsToDelete)
        THEN [c1 EXCEPT !.i = @ + 1, !.asked = Append(@, c.idsToDelete[c.i + 1])]
        ELSE [c1 EXCEPT !.pc = "done",
                        !.selectedTokens =
                            SelectSeq(@, LAMBDA x : \E k \in 1..Len(c1.tokens) :
                                                        c1.tokens[k].id = x),
                        !.shown = c1.deleted]

\* deleteSelectedTokens after an await: the answer for idsToDelete[i], then
\* the next fetch or, after the last id, the end of the handler, which
\* clears the selection and reports the count.
DeleteSelectedResult(c, o) ==
    LET id == c.idsToDelete[c.i]
        c1 == [c EXCEPT !.outcomes = Append(@, o),
                        !.tokens = IF o.kind = "success" THEN WithoutId(@, id) ELSE @,
                        !.deleted = IF o.kind = "success" THEN @ + 1 ELSE @]
    IN  IF c.i < Len(c.idsToDelete)
        THEN [c1 EXCEPT !.i = @ + 1, !.asked = Append(@, c.idsToDelete[c.i + 1])]
        ELSE [c1 EXCEPT !.pc = "done", !.selectedTokens = <<>>,
                        !.shown = c1.deleted]

DeleteSelectedAnswer ==
    /\ client.op = "deleteSelected" /\ client.pc = "awaiting"
    /\ \E o \in DeleteOutcomes : client' = DeleteSelectedResult(client, o)
    /\ PageOnly

\* The page loaded, one of the lists in tokens, nothing selected.
ClientStarts == { [NoClient EXCEPT !.tokens = list] : list \in ClientLists }

InitClient == InitWith({NoBody}, {TRUE}, ClientStarts)

NextClient ==
    \/ ToggleTokenSelection
    \/ ToggleSelectAll
    \/ LoadStart
    \/ LoadAnswer
    \/ DeleteTokenStart
    \/ DeleteTokenAnswer
    \/ DeleteSelectedStart
    \/ DeleteSelectedAnswer

\* The page and its user, the server seen through its answers.
SpecClient == InitClient /\ [][NextClient]_vars

(* ---------------------- the page: WhatsApp import ---------------------- *)
\* Number(s) of a string of the model's alphabet: NaN unless it is empty or
\* all digits.
NaN == -1
DigitValue(c) == CHOOSE d \in 0..9 : DigitChars[d + 1] = c

RECURSIVE NatOf(_)
NatOf(s) ==
    IF s = <<>> THEN 0
    ELSE 10 * NatOf(SubSeq(s, 1, Len(s) - 1)) + DigitValue(s[Len(s)])

Number(s) == IF s = <<>> THEN 0 ELSE IF AllDigits(s) THEN NatOf(s) ELSE NaN

\* x || 0 for a number: NaN and 0 are falsy.
OrZero(x) == IF x = NaN THEN 0 ELSE x

\* String.prototype.toUpperCase (the letters of am and pm).
UpperChar(c) == IF c = "a" THEN "A" ELSE IF c = "p" THEN "P" ELSE IF c = "m" THEN "M" ELSE c
ToUpperCase(s) == [k \in 1..Len(s) |-> UpperChar(s[k])]

\* String.prototype.split(/\s+/): the parts between the runs of white space,
\* an empty last part when the string ends with one.
RECURSIVE SplitSpaces(_)
SplitSpaces(s) ==
    IF \A k \in 1..Len(s) : ~IsSpace(s[k]) THEN <<s>>
    ELSE LET i == CHOOSE k \in 1..Len(s) :
                      IsSpace(s[k]) /\ \A j \in 1..(k - 1) : ~IsSpace(s[j])
         IN  <<SubSeq(s, 1, i - 1)>> \o SplitSpaces(TrimStart(SubSeq(s, i, Len(s))))

\* The conversion to the 24-hour clock: period is the part of the time after
\* the white space, empty (falsy) when there is none.
To24Hour(hours, period) ==
    IF period # <<>>
    THEN IF ToUpperCase(period) = <<"P", "M">> /\ hours # 12 THEN hours + 12
         ELSE IF ToUpperCase(period) = <<"A", "M">> /\ hours = 12 THEN 0
         ELSE hours
    ELSE hours

\* let [hours, minutes] = time.split(':').map(Number), converted.
HoursMinutes(hm, period) ==
    [hours |-> To24Hour(Number(hm[1]), period),
     minutes |-> OrZero(IF Len(hm) >= 2 THEN Number(hm[2]) ELSE NaN)]

\* let [time, period] = timeStr.split(/\s+/)
TimeParts(parts) ==
    HoursMinutes(Split(parts[1], ":"), IF Len(parts) >= 2 THEN parts[2] ELSE <<>>)

TimeOf(timeStr) == TimeParts(SplitSpaces(timeStr))

\* const [month, day, year] = dateStr.split('/').map(Number)
DateParts(mdy, time) ==
    [year |-> Number(mdy[3]), month |-> Number(mdy[1]) - 1, day |-> Number(mdy[2]),
     hours |-> time.hours, minutes |-> time.minutes]

\* new Date(year, month - 1, day, hours, minutes || 0): the fields of the
\* local time whose instant toISOString then writes.
CreatedAt(dateStr, timeStr) == DateParts(Split(dateStr, "/"), TimeOf(timeStr))

\* The way an hour is written: its digits, or two digits with a zero.
HourText(h, padded) ==
    IF padded /\ h < 10 THEN <<"0">> \o NatToString(h) ELSE NatToString(h)

\* The period as messages write it, upper or lower case; "" when the time
\* has none.
PeriodText(period) ==
    IF period = "AM" THEN <<"A", "M">>
    ELSE IF period = "PM" THEN <<"P", "M">>
    ELSE IF period = "am" THEN <<"a", "m">>
    ELSE IF period = "pm" THEN <<"p", "m">>
    ELSE <<>>

\* A line the regular expression matches, by its groups: the date, the time
\* (\d{1,2}:\d{2}\s*(?:AM|PM)?, case ignored: the hour, the minutes, white
\* space or none, the period or none), the name and the token; hour and
\* period tell how the time was written.
Message(h, padded, minutes, gap, period, name, token) ==
    [ matches |-> TRUE,
      dateStr |-> <<"1", "/", "2", "/", "2", "0", "2", "4">>,
      timeStr |-> HourText(h, padded) \o <<":">> \o minutes \o gap \o PeriodText(period),
      name |-> name, token |-> token,
      hour |-> h, gap |-> gap, period |-> period ]

\* A line the regular expression does not match.
OtherLine ==
    [ matches |-> FALSE, dateStr |-> <<>>, timeStr |-> <<>>, name |-> <<>>,
      token |-> <<>>, hour |-> 0, gap |-> <<>>, period |-> "" ]

\* The times of day as messages write them: every hour, the period apart
\* from the minutes, next to them, or absent.
Periods == {"", "AM", "PM", "pm"}
Gaps == {<<>>, <<SP>>}
TimedMessages ==
    { Message(h, FALSE, <<"3", "0">>, gap, period, <<"n">>, <<"a">>) :
         h \in 0..23, gap \in Gaps, period \in Periods }
    \cup { Message(9, TRUE, <<"0", "0">>, <<SP, SP>>, "am", <<"n", SP>>, <<SP, "a">>) }

\* The lines of the longer texts.
FewLines ==
    { Message(10, FALSE, <<"3", "0">>, <<SP>>, "PM", <<"n">>, <<"a">>),
      Message(9, FALSE, <<"0", "5">>, <<>>, "", <<"m">>, <<"b">>),
      OtherLine }

\* The texts of one message, for each way to write the time.
TimedTexts == { <<m>> : m \in TimedMessages }

\* The texts pasted for an import: up to MaxParsed lines.
WhatsappTexts == UNION { [1..n -> FewLines] : n \in 0..MaxParsed }

\* The record parseWhatsappMessages makes of a matching line.
ParsedToken(l) ==
    [ name |-> Trim(l.name), value |-> Trim(l.token),
      createdAt |-> CreatedAt(l.dateStr, l.timeStr), originalLine |-> l ]

ParsedOf(matching) == [k \in 1..Len(matching) |-> ParsedToken(matching[k])]

\* lines.forEach: the records of the lines that match, in their order.
ParseLines(lines) == ParsedOf(SelectSeq(lines, LAMBDA l : l.matches))

\* parseWhatsappMessages, of the Parse button, the text area holding one of
\* texts.  With an empty text it returns before it resets
\* parsedWhatsappTokens.
Parse(texts) ==
    /\ \E text \in texts :
          client' = [Since(client) EXCEPT
                        !.textarea = text,
                        !.parsedWhatsappTokens =
                            IF text = <<>> THEN @ ELSE ParseLines(text)]
    /\ PageOnly

\* The user pastes a text of lines and clicks Parse, no import running.
\* (While one runs the section can be closed, which replaces
\* parsedWhatsappTokens as a parse does.)
ParseWhatsappMessages == ClientIdle /\ Parse(WhatsappTexts)

\* The user pastes one message and clicks Parse.
ParseTimedMessage == ClientIdle /\ Parse(TimedTexts)

\* hideWhatsappImport, of the close button.
Hidden(c) == [c EXCEPT !.textarea = <<>>, !.parsedWhatsappTokens = <<>>]

HideWhatsappImport ==
    /\ client.textarea # <<>> \/ client.parsedWhatsappTokens # <<>>
    /\ client' = Hidden(Since(client))
    /\ PageOnly

\* The characters of the messages of POST /api/tokens; a missing message
\* (undefined) is the empty string, falsy as well.
MessageText(m) ==
    IF m = "Token added successfully"
    THEN <<"T", "o", "k", "e", "n", " ", "a", "d", "d", "e", "d", " ",
           "s", "u", "c", "c", "e", "s", "s", "f", "u", "l", "l", "y">>
    ELSE IF m = "Token already exists"
    THEN <<"T", "o", "k", "e", "n", " ", "a", "l", "r", "e", "a", "d", "y", " ",
           "e", "x", "i", "s", "t", "s">>
    ELSE IF m = "Failed to add token"
    THEN <<"F", "a", "i", "l", "e", "d", " ", "t", "o", " ", "a", "d", "d", " ",
           "t", "o", "k", "e", "n">>
    ELSE <<>>

\* The outcomes of POST /api/tokens.
PostOutcomes ==
    { Outcome("success", "Token added successfully"),
      Outcome("failure", "Token already exists"),
      Outcome("failure", "Failed to add token"),
      Outcome("failure", ""),
      Thrown }

\* String.prototype.includes for a string
IncludesText(s, part) ==
    \E k \in 0..(Len(s) - Len(part)) : SubSeq(s, k + 1, k + Len(part)) = part

AlreadyExists == <<"a", "l", "r", "e", "a", "d", "y", " ", "e", "x", "i", "s", "t", "s">>

\* Counted counting a duplicate as a failure too.
MutCountedDuplicateFails(c, o) ==
    IF o.kind = "success" THEN [c EXCEPT !.imported = @ + 1]
    ELSE IF /\ o.kind = "failure"
            /\ MessageText(o.message) # <<>>
            /\ IncludesText(MessageText(o.message), AlreadyExists)
    THEN [c EXCEPT !.duplicates = @ + 1, !.failed = @ + 1]
    ELSE [c EXCEPT !.failed = @ + 1]

\* The counters after one answer: imported, duplicate (a failure whose
\* message includes 'already exists') or failed (any other failure, and the
\* catch).
Counted(c, o) ==
    IF o.kind = "success" THEN [c EXCEPT !.imported = @ + 1]
    ELSE IF /\ o.kind = "failure"
            /\ MessageText(o.message) # <<>>
            /\ IncludesText(MessageText(o.message), AlreadyExists)
    THEN [c EXCEPT !.duplicates = @ + 1]
    ELSE [c EXCEPT !.failed = @ + 1]

\* The body importParsedTokens posts for a parsed token.
ImportBody(token, tag) ==
    Body(Some(token.name), Some(token.value), Some(tag), Some(token.createdAt))

\* The tag typed for the imports.
ImportTag == <<"w">>

\* importParsedTokens, up to the await of the first fetch; it returns at
\* once when there is nothing parsed.
ImportStart ==
    /\ ClientIdle
    /\ client' =
          IF client.parsedWhatsappTokens = <<>>
          THEN Begin(client, "import")
          ELSE [Begin(client, "import") EXCEPT
                   !.pc = "awaiting", !.tag = ImportTag,
                   !.importing = client.parsedWhatsappTokens, !.i = 1,
                   !.asked = <<ImportBody(client.parsedWhatsappTokens[1], ImportTag)>>]
    /\ PageOnly

\* importParsedTokens after an await of the loop: the answer is counted;
\* then the next fetch or, after the last token, the await of loadTokens.
ImportResult(c, o) ==
    IF c.i < Len(c.importing)
    THEN [Counted(c, o) EXCEPT
             !.outcomes = Append(@, o), !.i = @ + 1,
             !.asked = Append(@, ImportBody(c.importing[c.i + 1], c.tag))]
    ELSE [Counted(c, o) EXCEPT !.outcomes = Append(@, o), !.pc = "reloading"]

ImportAnswer ==
    /\ client.op = "import" /\ client.pc = "awaiting"
    /\ \E o \in PostOutcomes : client' = ImportResult(client, o)
    /\ PageOnly

\* importParsedTokens after the await of loadTokens: hideWhatsappImport.
ImportReload ==
    /\ client.op = "import" /\ client.pc = "reloading"
    /\ \E o \in LoadOutcomes :
          client' = Hidden([client EXCEPT
                               !.pc = "done",
                               !.tokens = IF o = "loaded" THEN <<StoredRecord>> ELSE @])
    /\ PageOnly

InitWhatsapp == InitWith({NoBody}, {TRUE}, {NoClient})

NextWhatsapp ==
    \/ ParseWhatsappMessages
    \/ HideWhatsappImport
    \/ ImportStart
    \/ ImportAnswer
    \/ ImportReload

\* The page's WhatsApp import, the server seen through its answers.
SpecWhatsapp == InitWhatsapp /\ [][NextWhatsapp]_vars

\* The parser on its own: messages written in each of the ways to write a
\* time are parsed, one at a time.
NextTime == ParseTimedMessage

SpecTime == InitWhatsapp /\ [][NextTime]_vars

(* ------------------------------ properties ----------------------------- *)
\* The requests that write: insert and delete.
Mutations == {"insert", "delete"}

\* The requests the model holds: those in flight and the one answered last.
Held == {req[r] : r \in Slots} \cup {last}

\* The requests whose write has been sent.
Written == {q \in Held : q.nPut > 0 \/ q.pc = "putSent"}

\* The values of the records a file body holds.
StoredValues(body) ==
    LET parsed == JsonParse(body)
        lines == NonBlank(Split(body.chars, NL))
    IN  IF parsed.ok
        THEN {parsed.tokens[i].value : i \in 1..Len(parsed.tokens)}
        ELSE {LineValue(lines[i]) : i \in 1..Len(lines)}

\* What a request had read, as the store's history keeps it.
ReadOf(q) == [status |-> q.getResp.status, sha |-> q.getResp.sha]

\* C1: of the requests that read the same version of the file (the same sha,
\* or both no file), the store accepts the write of at most one; a request
\* whose write was not accepted answers 500 and has made exactly one read
\* and one write (it does not retry).
C1_OneWriterPerVersion ==
    /\ \A i, j \in 1..Len(accepted) : i # j => accepted[i] # accepted[j]
    /\ (/\ last.op \in Mutations
        /\ last.nPut > 0
        /\ last.putStatus # 200)
       => (last.status = 500 /\ ~last.success /\ last.nGet = 1 /\ last.nPut = 1)

\* The store rejected (409) the write of a request that had read the same
\* version as a request whose write it accepted, and that request answered.
C1_Witness ==
    /\ last.op \in Mutations
    /\ last.putStatus = 409
    /\ last.status = 500
    /\ \E i \in 1..Len(accepted) : accepted[i] = ReadOf(last)

\* The values the record of a request's write stands for in the file.
OwnValues(rec) == StoredValues(Encode(<<rec>>, useJsonFormat, 0))

\* C2: no write clobbers another: an accepted write takes a value out of the
\* stored collection only when it is the write of a delete that removed a
\* record with that value, and brings a value in only when it is the write of
\* an insert of that value; so an acknowledged insert is not lost and an
\* acknowledged delete is not undone by another request's write.
C2_NoClobber ==
    lastWrite.op # "none" =>
        LET before == StoredValues(lastWrite.before)
            now    == StoredValues(remote.body)
        IN  /\ \A v \in before \ now :
                  lastWrite.op = "delete" /\ lastWrite.rec.value = v
            /\ \A v \in now \ before :
                  lastWrite.op = "insert" /\ v \in OwnValues(lastWrite.rec)

\* A write based on a stale version was rejected while the collection written
\* by the accepted insert is what the file holds.
C2_Witness ==
    /\ last.op \in Mutations
    /\ last.putStatus = 409
    /\ lastWrite.op = "insert"
    /\ \A i \in 1..Len(lastWrite.tokens) :
          lastWrite.tokens[i].value \in StoredValues(remote.body)

\* No two records of the stored collection have the same value.
NoDuplicateValues ==
    LET stored == Decode(remote.body, clock)
    IN  \A i, j \in 1..Len(stored) : i # j => stored[i].value # stored[j].value

\* C3 (as claimed): in every reachable state no two stored records have the
\* same value.
C3_UniqueValues == NoDuplicateValues

\* C3 (amended): when the file is written as JSON (the configured path ends
\* in .json), in every reachable state no two stored records have the same
\* value.
C3_UniqueValuesJson == useJsonFormat => NoDuplicateValues

\* A JSON-format collection of two records, after an accepted insert.
C3_Witness ==
    /\ useJsonFormat
    /\ lastWrite.op = "insert"
    /\ remote.body.kind = "json"
    /\ Len(remote.body.items) >= 2

\* Does the list hold a record with this value?
HasValue(tokens, v) == \E i \in 1..Len(tokens) : tokens[i].value = v

\* C4: an insert whose (trimmed) value equals the value of a record of the
\* list it read is answered 400 "Token already exists", whatever its name
\* and tag, and sends no write.
C4_DuplicateRejected ==
    \A q \in Held :
        (/\ q.op = "insert"
         /\ q.pc \in {"putSent", "putDone", "done"}
         /\ q.getResp.status = 200
         /\ HasValue(q.read, Trim(q.token[1])))
        => /\ q.pc = "done"
           /\ q.status = 400
           /\ q.message = "Token already exists"
           /\ ~q.success
           /\ q.nPut = 0

\* An insert was refused as a duplicate of a record with another name and
\* another tag.
C4_Witness ==
    /\ last.op = "insert"
    /\ last.status = 400
    /\ last.message = "Token already exists"
    /\ \E i \in 1..Len(last.read) :
          /\ last.read[i].value = Trim(last.token[1])
          /\ last.read[i].name # Trim(last.name[1])
          /\ last.tag # None /\ last.read[i].tag # last.tag[1]

\* A request field that is missing, empty or made of white space only.
Unusable(opt) ==
    opt = None \/ \A i \in 1..Len(opt[1]) : opt[1][i] \in {SP, TAB, NL}

\* C5: an insert whose name or value is missing, empty or white space only
\* is answered 400 without any read or write of the remote file.
C5_InvalidRejected ==
    \A q \in Held :
        (q.op = "insert" /\ (Unusable(q.name) \/ Unusable(q.token)))
        => /\ q.pc = "done"
           /\ q.status = 400
           /\ ~q.success
           /\ q.nGet = 0
           /\ q.nPut = 0

\* An insert with a white-space value was answered 400 while the file holds
\* records.
C5_Witness ==
    /\ last.op = "insert"
    /\ last.status = 400
    /\ last.token # None /\ last.token[1] # <<>> /\ Trim(last.token[1]) = <<>>
    /\ remote.exists

\* Does the list hold a record with this id?
HasId(tokens, id) == \E i \in 1..Len(tokens) : tokens[i].id = id

\* C6: a delete of an id that no record of the list it read has is answered
\* 404 and sends no write; an update is answered 404 and sends no write.
C6_UnknownIdNotFound ==
    \A q \in Held :
        /\ (/\ q.op = "delete"
            /\ q.pc \in {"putSent", "putDone", "done"}
            /\ q.getResp.status \in {200, 404}
            /\ ~HasId(q.read, q.id))
           => (q.pc = "done" /\ q.status = 404 /\ ~q.success /\ q.nPut = 0)
        /\ (q.op = "update" /\ ~HasId(Decode(remote.body, clock), q.id))
           => (q.pc = "done" /\ q.status = 404 /\ ~q.success /\ q.nPut = 0)

\* A delete of an unknown id was answered 404 after reading a list that
\* holds records.
C6_Witness ==
    /\ last.op = "delete"
    /\ last.status = 404
    /\ Len(last.read) > 0
    /\ ~HasId(last.read, last.id)

\* C7: every write carries the sha the read of the same request returned,
\* and no sha when that read found no file; the read precedes the write.
C7_WriteCarriesReadSha ==
    \A q \in Written :
        /\ q.nGet = 1
        /\ q.getResp.status \in {200, 404}
        /\ q.payload.hasSha = (q.getResp.status = 200)
        /\ q.payload.hasSha => q.payload.sha = q.getResp.sha

\* A write is on its way with the sha its request read, which is no longer
\* the sha of the file.
C7_Witness ==
    \E r \in Slots :
        /\ req[r].pc = "putSent"
        /\ req[r].payload.hasSha
        /\ req[r].payload.sha = req[r].getResp.sha
        /\ req[r].payload.sha # remote.sha

\* C8: a success answer to an insert or a delete is sent only after the
\* store accepted the write of that request.
C8_SuccessAfterAcceptedWrite ==
    (last.op \in Mutations /\ (last.success \/ last.status = 200))
    => /\ last.nPut = 1
       /\ last.putStatus = 200
       /\ \E i \in 1..Len(accepted) : accepted[i] = ReadOf(last)

\* A delete answered success.
C8_Witness ==
    /\ last.op = "delete"
    /\ last.success
    /\ last.status = 200
    /\ last.resToken.id = last.id

\* C9: when the read finds no file (404), list answers the empty list, delete
\* answers 404 without a write, and the write of an insert has no sha.
C9_MissingFileIsEmpty ==
    \A q \in Held :
        (q.getResp.status = 404 /\ q.pc \in {"putSent", "putDone", "done"})
        => /\ q.op = "list" => (q.status = 200 /\ q.success /\ q.resTokens = <<>>)
           /\ q.op = "delete" => (q.status = 404 /\ q.nPut = 0)
           /\ q.op = "insert" => (q.read = <<>> /\ q.sha = 0 /\ ~q.payload.hasSha
                                  /\ (q.pc = "done" => q.nPut = 1))

\* An insert that found no file created it: its write had no sha and was
\* accepted.
C9_Witness ==
    /\ last.op = "insert"
    /\ last.getResp.status = 404
    /\ ~last.payload.hasSha
    /\ last.success

\* C10: a list that reads the file an insert has just written (no other write
\* in between) returns the list that insert read with the created record, as
\* the insert returned it, appended at the end.
C10_ListAfterInsert ==
    (last.op = "list" /\ last.status = 200 /\ last.after.op = "insert")
    => last.resTokens = last.after.tokens

\* Number of records of the list with this id.
CountId(tokens, id) == Cardinality({i \in 1..Len(tokens) : tokens[i].id = id})

\* A delete that goes on to its write has taken the first record with the
\* requested id out of the list it read, writes the rest and answers with
\* that record.
DeleteWritesRest ==
    \A q \in Held :
        (q.op = "delete" /\ q.nPut + (IF q.pc = "putSent" THEN 1 ELSE 0) > 0)
        => /\ q.rec.id = q.id
           /\ Len(q.tokens) = Len(q.read) - 1
           /\ q.payload.content = Encode(q.tokens, useJsonFormat, 0)
           /\ (q.pc = "done" /\ q.success) => q.resToken = q.rec

\* The last answer is that of a list that read the file a delete had just
\* written (no other write in between).
ListedAfterDelete ==
    last.op = "list" /\ last.status = 200 /\ last.after.op = "delete"

\* C11 (as claimed): a successful delete returns the removed record and
\* writes back the collection without it, and a list that follows it with no
\* other write in between holds no record with that id.
C11_DeleteThenList ==
    /\ DeleteWritesRest
    /\ ListedAfterDelete => ~HasId(last.resTokens, last.after.rec.id)

\* C11 (amended): a successful delete returns the first record with the
\* requested id and writes back the collection without it, and a list that
\* follows it with no other write in between holds one record with that id
\* fewer than the collection the delete read: the records that shared the
\* id with the removed one are still listed.
C11_DeleteRemovesOne ==
    /\ DeleteWritesRest
    /\ ListedAfterDelete
       => /\ Len(last.resTokens) = Len(last.after.tokens)
          /\ CountId(last.resTokens, last.after.rec.id)
               = CountId(last.after.tokens, last.after.rec.id)

\* A list that followed a delete still holds a record with the deleted id.
C11_Witness ==
    /\ ListedAfterDelete
    /\ HasId(last.resTokens, last.after.rec.id)

\* C12: an update of an id that a stored record has answers 200 with the
\* updated record: the id kept, name, value, tag and createdAt those of the
\* request body.
C12_UpdateReplaces ==
    (last.op = "update" /\ HasId(Decode(remote.body, clock), last.id))
    => /\ last.status = 200
       /\ last.success
       /\ last.resToken = Token(last.id, last.name[1], last.token[1],
                                last.tag[1], last.createdAt[1])

\* C13: the record a successful insert returns has the createdAt of the
\* request body when the body has one, and the time of the write (the time
\* its id is made of) when it has none.
C13_CallerCreatedAt ==
    (last.op = "insert" /\ last.success)
    => last.resToken.createdAt
         = (IF last.createdAt # None THEN last.createdAt[1]
            ELSE last.resToken.id \o <<"Z">>)

\* C14: the id a successful insert returned is the id of the record in a
\* list that reads the file the insert wrote, and a delete of that id that
\* reads that file finds the record.
C14_StableId ==
    /\ (last.op = "list" /\ last.status = 200 /\ last.after.op = "insert")
       => \E i \in 1..Len(last.resTokens) :
             /\ last.resTokens[i].id = last.after.rec.id
             /\ last.resTokens[i].value = last.after.rec.value
    /\ (/\ last.op = "delete"
        /\ last.getResp.status = 200
        /\ last.getResp.sha = remote.sha
        /\ lastWrite.op = "insert"
        /\ last.id = lastWrite.rec.id)
       => last.status # 404

\* C15: the id a successful insert assigns is the id of no record of the
\* collection the record is added to (ids made by the API start at the
\* clock's first value, above the ids of the files the server starts with).
C15_FreshId ==
    lastWrite.op = "insert"
    => ~HasId(Decode(lastWrite.before, 0), lastWrite.rec.id)

\* C16: decoding the JSON encoding of a well-formed list gives the same
\* list: same length, same order, the same five fields in each record.
C16_JsonRoundTrip ==
    codec.op = "json" => (~codec.threw /\ codec.out = codec.tokens)

\* Two records with quotes, backslashes, a tab and a newline in their fields
\* came back as they were.
C16_Witness ==
    /\ codec.op = "json"
    /\ Len(codec.tokens) = 2
    /\ codec.tokens[1].value = <<"a", TAB, NL>>
    /\ codec.tokens[2].value = <<BSL, "n">>
    /\ codec.tokens[2].name = <<"a", QUOTE>>
    /\ codec.out = codec.tokens

\* name, value, tag and createdAt of a record.
Fields4(name, value, tag, createdAt) ==
    [name |-> name, value |-> value, tag |-> tag, createdAt |-> createdAt]
FieldsOf(tok) == Fields4(tok.name, tok.value, tok.tag, tok.createdAt)

\* The lines of a text that are not empty.
NonEmptyLines(chars) == SelectSeq(Split(chars, NL), LAMBDA l : l # <<>>)

\* The i-th field of a line, dflt when the line has no such field or an
\* empty one.
FieldOr(line, i, dflt) ==
    LET parts == Split(line, TAB)
    IN  IF i <= Len(parts) /\ parts[i] # <<>> THEN parts[i] ELSE dflt

\* The record of the k-th line, its fields taken as they are.
ClaimedFields(line, k, t) ==
    IF Includes(line, TAB)
    THEN Fields4(FieldOr(line, 1, DefaultName(k - 1)), FieldOr(line, 2, <<>>),
                 FieldOr(line, 3, <<>>), FieldOr(line, 4, ToISOString(t)))
    ELSE Fields4(DefaultName(k - 1), Trim(line), <<>>, ToISOString(t))

\* The record of the k-th line, its fields trimmed, a field of white space
\* counting as a missing one.
TrimmedFields(line, k, t) ==
    IF Includes(line, TAB)
    THEN Fields4(OrElse(Trim(FieldOr(line, 1, <<>>)), DefaultName(k - 1)),
                 Trim(FieldOr(line, 2, <<>>)),
                 Trim(FieldOr(line, 3, <<>>)),
                 OrElse(Trim(FieldOr(line, 4, <<>>)), ToISOString(t)))
    ELSE Fields4(DefaultName(k - 1), Trim(line), <<>>, ToISOString(t))

\* A plain-text file was read: lines of one to four fields.
TextRead == codec.op = "text" /\ codec.chars \in CodecTexts

\* C17 (as claimed): a plain-text file of lines of one to four fields
\* decodes to one record per non-empty line, its fields those of the line
\* in the order name, value, tag, createdAt, a missing field taking its
\* default; a line without a tab gives its trimmed text as the value.
C17_FieldsOfLine ==
    TextRead =>
        LET lines == NonEmptyLines(codec.chars)
        IN  /\ Len(codec.out) = Len(lines)
            /\ \A k \in 1..Len(lines) :
                  FieldsOf(codec.out[k]) = ClaimedFields(lines[k], k, codec.t)

\* C17 (amended): a plain-text file of lines of one to four fields that is
\* not a JSON text decodes to one record per line that is not white space
\* only, its fields those of the line with the white space around them
\* removed, in the order name, value, tag, createdAt; a name or a createdAt
\* that is missing or white space only takes its default ("Token k" for the
\* k-th such line, the time of the read), a missing value or tag is empty;
\* a line without a tab gives its trimmed text as the value.
C17_TrimmedFieldsOfLine ==
    (TextRead /\ ~IsJsonText(codec.chars)) =>
        LET lines == SelectSeq(Split(codec.chars, NL), LAMBDA l : ~IsBlank(Some(l)))
        IN  /\ Len(codec.out) = Len(lines)
            /\ \A k \in 1..Len(lines) :
                  FieldsOf(codec.out[k]) = TrimmedFields(lines[k], k, codec.t)

\* The second record of a file came from a line of four fields, padded with
\* white space, that follows a line of white space.
C17_Witness ==
    /\ TextRead
    /\ codec.chars =
          <<SP, NL, SP, "b", SP, TAB, "a", TAB, SP, "b", SP, TAB, "a">>
    /\ Len(codec.out) = 1
    /\ FieldsOf(codec.out[1]) = Fields4(<<"b">>, <<"a">>, <<"b">>, <<"a">>)

\* The first ten and the last ten characters of a value.
Edges(v) ==
    SubSeq(v, 1, IF Len(v) < 10 THEN Len(v) ELSE 10)
    \o SubSeq(v, (IF Len(v) > 10 THEN Len(v) - 9 ELSE 1), Len(v))

\* C18: two reads of the same plain-text file give each line the same id,
\* and two lines whose trimmed values have the same first ten and last ten
\* characters get the same id, whatever their position, name, tag and date
\* and the times of the reads.
C18_DerivedIdOfValue ==
    (codec.op = "text" /\ ~IsJsonText(codec.chars))
    => /\ Len(codec.again) = Len(codec.out)
       /\ \A i \in 1..Len(codec.out) : codec.again[i].id = codec.out[i].id
       /\ \A i, j \in 1..Len(codec.out) :
             Edges(codec.out[i].value) = Edges(codec.again[j].value)
             => codec.out[i].id = codec.again[j].id

\* Two lines whose values differ in the middle only were read at two times,
\* into records with other names and dates and the same id.
C18_Witness ==
    /\ codec.op = "text"
    /\ Len(codec.out) = 2
    /\ codec.out[1].value # codec.out[2].value
    /\ codec.out[1].name # codec.out[2].name
    /\ codec.out[1].createdAt # codec.again[1].createdAt
    /\ codec.out[1].id = codec.again[2].id

TabLine(tok) ==
    tok.name \o <<TAB>> \o tok.value \o <<TAB>> \o tok.tag \o <<TAB>> \o tok.createdAt

\* C20: every write is a JSON array of the records when the configured path
\* ends in .json, and otherwise one line per record, name, value, tag and
\* createdAt separated by tabs, whatever the format of the file that was
\* read; so after a write the file has the format the path selects.
C20_FormatByPath ==
    /\ \A q \in Written :
          q.payload.content =
              (IF useJsonFormat
               THEN [kind |-> "json", isArray |-> TRUE, items |-> q.tokens,
                     chars |-> <<>>]
               ELSE [kind |-> "text", isArray |-> FALSE, items |-> <<>>,
                     chars |-> JoinWith([i \in 1..Len(q.tokens) |-> TabLine(q.tokens[i])],
                                        <<NL>>)])
    /\ lastWrite.op # "none"
       => remote.body.kind = (IF useJsonFormat THEN "json" ELSE "text")

\* A request that read a JSON file wrote plain text, and the store accepted
\* the write.
C20_Witness ==
    /\ ~useJsonFormat
    /\ last.op \in Mutations
    /\ last.success
    /\ last.getResp.body.kind = "json"
    /\ last.payload.content.kind = "text"
    /\ remote.body.kind = "text"

\* C21: a request whose read failed (not a 404) or whose write was rejected
\* or failed answers 500 with success false; a request whose read failed
\* sends no write, so it changes nothing of what the store holds.
C21_RemoteFailureIs500 ==
    /\ \A q \in Held :
          q.getResp.status = 500
          => /\ q.nPut = 0
             /\ q.pc \notin {"putSent", "putDone"}
             /\ q.payload = NoPayload
    /\ (\/ last.getResp.status = 500
        \/ last.nPut > 0 /\ last.putStatus # 200)
       => (last.status = 500 /\ ~last.success)

\* An insert whose read failed was answered 500 while the file exists.
C21_Witness ==
    /\ last.op = "insert"
    /\ last.getResp.status = 500
    /\ last.status = 500
    /\ last.nPut = 0
    /\ remote.exists

\* C22: an insert whose body holds the token value and no name adds the
\* token: it is answered success with the created record, unless the value
\* is already stored or the remote store failed.
C22_ValueOnlyInsert ==
    (/\ last.op = "insert"
     /\ last.name = None
     /\ ~IsBlank(last.token))
    => \/ last.success /\ last.resToken.value = Trim(last.token[1])
       \/ last.status = 500
       \/ last.message = "Token already exists"

\* C24: a list or a health request never writes: it sends no PUT (health not
\* even a GET), every write the store accepted is that of an insert or of a
\* delete, and as long as the store has accepted none the file, plain text
\* converted to records in memory included, and its sha are those the
\* server started with.
C24_ReadsNeverWrite ==
    /\ \A q \in Held :
          q.op \in {"list", "health"}
          => /\ q.nPut = 0
             /\ q.pc \notin {"putSent", "putDone"}
             /\ q.payload = NoPayload
             /\ q.op = "health" => q.nGet = 0
    /\ lastWrite.op \in {"none"} \cup Mutations
    /\ accepted = <<>>
       => /\ remote.body \in InitFiles
          /\ remote.exists = (remote.body # NoBody)
          /\ remote.sha = (IF remote.exists THEN 1 ELSE 0)
          /\ lastWrite = NoWrite

\* Two lists have read the plain-text file and answered its records, and
\* the file is as it was.
C24_Witness ==
    /\ last.op = "list"
    /\ last.status = 200
    /\ last.getResp.body.kind = "text"
    /\ Len(last.resTokens) = 2
    /\ started = MaxRequests
    /\ \A r \in Slots : Free(r)
    /\ accepted = <<>>
    /\ remote.sha = 1

\* The requests that have read one of the files that are JSON but no array,
\* and have decoded it.
ReadScalar ==
    {q \in Held : /\ q.getResp.status = 200
                  /\ q.getResp.body \in ScalarFiles
                  /\ q.pc \in {"putSent", "putDone", "done"}}

\* C25: a file that is JSON but no array is read as the empty list, not as
\* lines of text: a list answers no record and a delete 404; an insert
\* writes the list of its record alone, and the file the store holds after
\* that write is the encoding of that one record and decodes to one record.
C25_NonArrayJsonIsEmpty ==
    /\ \A q \in ReadScalar :
          /\ q.read = <<>>
          /\ q.op = "list" => (q.status = 200 /\ q.resTokens = <<>>)
          /\ q.op = "delete" => q.status = 404
          /\ q.op = "insert"
             => /\ q.tokens = <<q.rec>>
                /\ q.payload.content = Encode(<<q.rec>>, useJsonFormat, 0)
    /\ (lastWrite.op = "insert" /\ lastWrite.before \in ScalarFiles)
       => /\ lastWrite.tokens = <<lastWrite.rec>>
          /\ remote.body = Encode(<<lastWrite.rec>>, useJsonFormat, 0)
          /\ Len(Decode(remote.body, clock)) = 1

\* An insert that read the file of one bare number was answered success, and
\* the file now holds its record alone.
C25_Witness ==
    /\ last.op = "insert"
    /\ last.success
    /\ last.getResp.body = TextBody(<<"7">>)
    /\ lastWrite.before = TextBody(<<"7">>)
    /\ lastWrite.rec = last.resToken
    /\ Len(Decode(remote.body, clock)) = 1

\* The deletes that have gone on to their write.
Deleting ==
    {q \in Held : q.op = "delete" /\ (q.pc \in {"putSent", "putDone"} \/ q.nPut > 0)}

\* C26: a delete that writes removes exactly one record, the first of the
\* list it read that has the requested id, also when several records share
\* that id: it returns that record, and the list it writes is the list it
\* read without it, every other record unchanged and in the same order; the
\* file a delete has written decodes to as many records as that list.
C26_DeleteExactlyOne ==
    /\ \A q \in Deleting :
          \E i \in 1..Len(q.read) :
             /\ q.read[i].id = q.id
             /\ \A j \in 1..(i - 1) : q.read[j].id # q.id
             /\ q.rec = q.read[i]
             /\ Len(q.tokens) = Len(q.read) - 1
             /\ \A j \in 1..Len(q.tokens) :
                   q.tokens[j] = q.read[IF j < i THEN j ELSE j + 1]
             /\ q.payload.content = Encode(q.tokens, useJsonFormat, 0)
             /\ (q.pc = "done" /\ q.success) => q.resToken = q.read[i]
    /\ lastWrite.op = "delete"
       => Len(Decode(remote.body, clock)) = Len(lastWrite.tokens)

\* A delete of an id that two records of the list it read share was answered
\* success with the first of them, and the second was written back.
C26_Witness ==
    /\ last.op = "delete"
    /\ last.success
    /\ Len(last.read) = 2
    /\ last.read[1].id = last.id
    /\ last.read[2].id = last.id
    /\ last.read[1] # last.read[2]
    /\ last.resToken = last.read[1]
    /\ last.tokens = <<last.read[2]>>

\* The handler op has just returned, having sent a request.
Returned(op) == client.op = op /\ client.pc = "done" /\ client.asked # <<>>

\* C23: when a confirmed deleteToken has returned, the local list is, after
\* a success answer, the list it had without the records with that id (none
\* of that id is left, the others are kept in their order), and after a
\* failure answer or an exception the list it had.
C23_SingleDelete ==
    Returned("deleteToken")
    => /\ client.asked = <<client.tokenId>>
       /\ Len(client.outcomes) = 1
       /\ IF client.outcomes[1].kind = "success"
          THEN /\ ~HasId(client.tokens, client.tokenId)
               /\ client.tokens = SelectSeq(client.before,
                                            LAMBDA t : t.id # client.tokenId)
          ELSE client.tokens = client.before

\* A delete of one of three rows was answered success: two rows are left.
C23_Witness ==
    /\ Returned("deleteToken")
    /\ client.outcomes[1].kind = "success"
    /\ client.tokenId = StoredRecord.id
    /\ Len(client.before) = 3
    /\ Len(client.tokens) = 2

\* The positions of the bulk delete's requests that were answered success.
Successes == {k \in 1..Len(client.outcomes) : client.outcomes[k].kind = "success"}

\* C29: when a confirmed bulk delete has returned, it has asked for each
\* selected id once, in the order of the selection; the selection is empty;
\* the local list is the list it had without the records whose id's request
\* was answered success (the ids that failed or threw are still listed); and
\* the count kept and reported is the number of success answers.
C29_BulkDelete ==
    Returned("deleteSelected")
    => /\ client.asked = client.idsToDelete
       /\ Len(client.outcomes) = Len(client.idsToDelete)
       /\ client.selectedTokens = <<>>
       /\ client.deleted = Cardinality(Successes)
       /\ client.shown = Cardinality(Successes)
       /\ client.tokens =
             SelectSeq(client.before,
                       LAMBDA t : ~\E k \in Successes : client.idsToDelete[k] = t.id)

\* A bulk delete of two ids, the first answered failure, the second success,
\* has returned: the rows of the first id are still listed.
C29_Witness ==
    /\ Returned("deleteSelected")
    /\ Len(client.idsToDelete) = 2
    /\ client.outcomes[1].kind = "failure"
    /\ client.outcomes[2].kind = "success"
    /\ client.deleted = 1
    /\ HasId(client.tokens, client.idsToDelete[1])
    /\ ~HasId(client.tokens, client.idsToDelete[2])
    /\ HasId(client.before, client.idsToDelete[2])

\* The import has left its loop, having posted.
LoopEnded ==
    client.op = "import" /\ client.pc \in {"reloading", "done"} /\ client.asked # <<>>

\* The positions of the import's requests whose outcome is one of these.
Answered(outcomes) ==
    {k \in 1..Len(client.outcomes) : client.outcomes[k] \in outcomes}

\* C27: the import posts the parsed tokens one after the other in the order
\* of the list, each once, the next one after the answer to the one before;
\* every answer is counted once, so that when the loop has ended imported +
\* duplicates + failed is the number of parsed tokens; imported counts the
\* success answers, duplicates the failure answers whose message contains
\* 'already exists', failed the other failures and the exceptions.
C27_ImportCounts ==
    /\ (client.op = "import" /\ client.asked # <<>>)
       => /\ client.asked = [k \in 1..Len(client.asked) |->
                                ImportBody(client.importing[k], client.tag)]
          /\ Len(client.asked) = Len(client.outcomes)
                                 + (IF client.pc = "awaiting" THEN 1 ELSE 0)
          /\ client.imported + client.duplicates + client.failed
               = Len(client.outcomes)
    /\ LoopEnded
       => /\ Len(client.asked) = Len(client.importing)
          /\ client.imported + client.duplicates + client.failed
               = Len(client.importing)
          /\ client.imported
               = Cardinality(Answered({Outcome("success", "Token added successfully")}))
          /\ client.duplicates
               = Cardinality(Answered({Outcome("failure", "Token already exists")}))
          /\ client.failed
               = Cardinality(Answered({Outcome("failure", "Failed to add token"),
                                       Outcome("failure", ""), Thrown}))

\* An import of two tokens has returned: the first was a duplicate, the
\* second was imported.
C27_Witness ==
    /\ client.op = "import"
    /\ client.pc = "done"
    /\ Len(client.importing) = 2
    /\ client.outcomes = << Outcome("failure", "Token already exists"),
                            Outcome("success", "Token added successfully") >>
    /\ client.imported = 1
    /\ client.duplicates = 1
    /\ client.failed = 0
    /\ client.parsedWhatsappTokens = <<>>

\* The message parsed last and the hour parseWhatsappMessages gave it.
OneParsed == Len(client.textarea) = 1 /\ Len(client.parsedWhatsappTokens) = 1
MessageWritten == client.textarea[1]
HoursParsed == client.parsedWhatsappTokens[1].createdAt.hours

\* C28: a message whose time is written with the hour h of 1..12 and AM or
\* PM is given the hour 0 for 12 AM, h for h AM (h < 12), 12 for 12 PM and
\* h + 12 for h PM (h < 12), an hour of 0..23; a message whose time is
\* written without AM or PM is given the hour as written.
C28_To24Hour ==
    OneParsed
    => /\ (MessageWritten.period \in {"AM", "am"} /\ MessageWritten.hour \in 1..12)
          => HoursParsed = (IF MessageWritten.hour = 12 THEN 0 ELSE MessageWritten.hour)
       /\ (MessageWritten.period \in {"PM", "pm"} /\ MessageWritten.hour \in 1..12)
          => HoursParsed = (IF MessageWritten.hour = 12 THEN 12 ELSE MessageWritten.hour + 12)
       /\ (MessageWritten.period # "" /\ MessageWritten.hour \in 1..12) => HoursParsed \in 0..23
       /\ MessageWritten.period = "" => HoursParsed = MessageWritten.hour

====
